---- MODULE Spec2Model ----
(***************************************************************************)
(* Model of the Archey installer's install pipeline (InstallWorker) and of *)
(* the InstallScreen that observes it.                                     *)
(*                                                                         *)
(* Strings the code computes (device paths, numbers rendered as text) are  *)
(* tuples of one-character strings; literal arguments and package names    *)
(* are TLA+ strings.  QVariantMap values are functions whose DOMAIN is the *)
(* set of keys present, so isEmpty() is DOMAIN m = {}.                     *)
(***************************************************************************)
EXTENDS Integers, Sequences, FiniteSets, TLC

VARIABLES m_state,      \* InstallWorker::m_state, the worker's copy of the configuration
          pc,           \* position of the worker thread inside run()
          err,          \* the exception in flight / caught, NoErr when none was thrown
          trace,        \* everything the worker did so far: signals emitted and tools invoked
          efi,          \* run(): efi device path returned by doPartition
          root,         \* run(): root device path returned by doPartition
          disk_free,    \* the target disk's free regions, as "parted print free" reports them
          slow,         \* the discovery tools that do not finish within the wait they are given
          files,        \* files the pipeline reads and writes, on the live system and under /mnt
          freeRegions,  \* partitionFreeSpace(): parsed free regions
          best,         \* partitionFreeSpace(): the selected region
          delivered,    \* GUI thread: how far into trace the queued signals have been handled
          m_progress,   \* InstallScreen::m_progress, the value of the progress bar
          m_failLbl,    \* InstallScreen::m_failLbl is visible
          screen,       \* MainWindow: the screen m_stack currently shows
          wiz,          \* MainWindow::m_state, the configuration the wizard collects
          m_disk,       \* DiskScreen: m_selectedDisk, m_archSizeGb and m_mode
          m_user,       \* UserScreen: the texts of its four fields, and m_confirmBtn is enabled
          confirmed     \* the screens whose confirmed signal MainWindow has handled so far

vars == <<m_state, pc, err, trace, efi, root, disk_free, slow, files, freeRegions, best,
          delivered, m_progress, m_failLbl, screen, wiz, m_disk, m_user, confirmed>>

----------------------------------------------------------------------------
(* Bounds *)

MaxRegions == 2     \* at most this many "Free Space" lines in the parted output
MaxOutLines == 1    \* at most this many non-blank output lines of a failing tool
Frac == 2           \* parted's MB values are decimals: the model counts them in 1/Frac MB
MaxPkgs == 2        \* at most this many packages in a list the user picked
MaxGrubLines == 2   \* at most this many lines in /mnt/etc/default/grub before the run
MaxApply == 3       \* the rewrite of /mnt/etc/default/grub is applied up to this many times
MaxPartNum == 12    \* partition numbers up to this one are named

----------------------------------------------------------------------------
(* Text helpers *)

Digits == <<"0","1","2","3","4","5","6","7","8","9">>

RECURSIVE NumStr(_)
\* QString::number(n) for n >= 0
NumStr(n) == IF n < 10 THEN <<Digits[n + 1]>>
             ELSE NumStr(n \div 10) \o <<Digits[(n % 10) + 1]>>

\* QString::contains(needle)
Contains(s, needle) ==
    \E i \in 0..(Len(s) - Len(needle)) :
        \A j \in 1..Len(needle) : s[i + j] = needle[j]

\* QString::startsWith(prefix)
StartsWith(s, prefix) ==
    /\ Len(prefix) <= Len(s)
    /\ \A j \in 1..Len(prefix) : s[j] = prefix[j]

DEV == <<"/","d","e","v","/">>
SDA == <<"s","d","a">>
NVME0N1 == <<"n","v","m","e","0","n","1">>
MMCBLK0 == <<"m","m","c","b","l","k","0">>
VDA == <<"v","d","a">>
MB == <<"M","B">>

EmptyMap == <<>>

\* QVariantMap::isEmpty()
isEmpty(m) == DOMAIN m = {}

\* m[key].toString(): a missing key reads as the empty string
MapStr(m, key) == IF key \in DOMAIN m THEN m[key] ELSE <<>>

\* m[key].toStringList(): a missing key reads as the empty list
MapList(m, key) == IF key \in DOMAIN m THEN m[key] ELSE <<>>

\* m[key].toString() for values the model keeps as TLA+ strings
MapText(m, key) == IF key \in DOMAIN m THEN m[key] ELSE ""

\* m[key].toDouble(): a missing key reads as 0
MapNum(m, key) == IF key \in DOMAIN m THEN m[key] ELSE 0

\* a name without the "p"
partName_plain(disk, num) == disk \o NumStr(num)

\* InstallWorker::partName
partName(disk, num) ==
    IF Contains(disk, <<"n","v","m","e">>) \/ Contains(disk, <<"m","m","c","b","l","k">>)
    THEN disk \o <<"p">> \o NumStr(num)
    ELSE disk \o NumStr(num)

----------------------------------------------------------------------------
(* Events and tool outcomes *)

NoErr == [kind |-> "none"]

LogE(tag) == [k |-> "log", tag |-> tag]
ProgE(pct) == [k |-> "progress", pct |-> pct]
CmdE(prog, args) == [k |-> "cmd", prog |-> prog, args |-> args]
FailedE(msg) == [k |-> "failed", msg |-> msg]
SuccE == [k |-> "succeeded"]

\* InstallWorker::_log
_log(tag) == <<LogE(tag)>>

\* InstallWorker::_progress: the progress signal, then the "[pct%] msg" log line
_progress(pct) == <<ProgE(pct)>> \o _log("[pct%]")

\* _run: out.right(700)
TailMax == 700

\* the combined output a failing tool may have printed: its number of
\* non-blank lines and its length in characters
Outputs ==
    {[out |-> 0, chars |-> 0]}
    \cup UNION {{[out |-> n, chars |-> c] : c \in {5 * n, TailMax, TailMax + 1}} :
                   n \in 1..MaxOutLines}

\* What a finished QProcess reports: exitStatus(), exitCode(), and the
\* output read from it (non-blank lines and length).
Outcomes ==
    {[status |-> "NormalExit", code |-> 0, out |-> 0, chars |-> 0]}
    \cup {[status |-> "NormalExit", code |-> 1, out |-> o.out, chars |-> o.chars] : o \in Outputs}
    \cup {[status |-> "CrashExit", code |-> 9, out |-> 0, chars |-> 0]}

\* a call of _run as the trace records it: the program, its arguments, the
\* check flag, and what the process reported when it had finished
RunE(prog, args, check, res) ==
    [k |-> "cmd", prog |-> prog, args |-> args, check |-> check, res |-> res]

\* a tail that is the whole output, however long
right_whole(len, n) == [first |-> 1, last |-> len]

\* QString::right(n) of a text of len characters, as the positions it spans
right(len, n) == [first |-> IF len > n THEN len - n + 1 ELSE 1, last |-> len]

\* the failure test of _run
ExitedBadly(res) == res.status # "NormalExit" \/ res.code # 0

\* throw std::runtime_error(...): control leaves the try block
Throw(msg) == /\ err' = msg
              /\ pc' = "catch"

\* InstallWorker::_run: log the command line, run the tool to completion,
\* log its output lines, throw CommandFailed when check is set and it failed.
\* pre: what the caller emitted since the previous tool;  next: where the
\* caller continues.
_run(pre, prog, args, check, next) ==
    \E res \in Outcomes :
        /\ trace' = trace \o pre \o _log("$") \o <<RunE(prog, args, check, res)>>
                          \o [i \in 1..res.out |-> LogE("out")]
        /\ IF check /\ ExitedBadly(res)
           THEN Throw([kind |-> "CommandFailed", code |-> res.code,
                       cmd |-> CmdE(prog, args), tail |-> right(res.chars, TailMax)])
           ELSE pc' = next /\ err' = err

----------------------------------------------------------------------------
(* Configurations and disk layouts the runs are started with *)

GB(g) == g * 1024 * Frac      \* g * 1024 MB, counted in 1/Frac MB
GiB(g) == g * 1024 * 1024     \* g GiB in KiB: lsblk byte sizes are counted in KiB

Disks == {[name |-> SDA], [name |-> NVME0N1]}

\* lsblk entries of the partitions of disk d that exist before the run
EfiOf(d) == [name |-> partName(d.name, 1)]
WinOf(d, size) == [name |-> partName(d.name, 2), size |-> size]

\* desktop descriptors as DEScreen::onConfirm builds them
DEs == { EmptyMap,
         [name |-> "Minimal", dm |-> "", packages |-> <<>>],
         [name |-> "i3", dm |-> "", packages |-> <<"i3-wm", "dmenu">>],
         [name |-> "GNOME", dm |-> "gdm", packages |-> <<"gnome", "gdm">>] }

InstallState(d, mode, e, w, gb, de) ==
    [disk |-> d, efiPartition |-> e, windowsPartition |-> w,
     archSizeGb |-> gb, installMode |-> mode, de |-> de,
     cpuPackages |-> <<"intel-ucode">>, gpuPackages |-> <<"mesa">>,
     userPackages |-> <<"htop", "git">>, systemPackages |-> <<"pipewire", "gdm">>,
     hostname |-> <<"p","c","-","1">>, username |-> <<"b","o","b">>,
     password |-> <<"s","e","c","r","e","t">>]

Region(s, e, z) == [startMb |-> s, endMb |-> e, sizeMb |-> z]

\* "Free Space" lines a disk may report (values in 1/Frac MB)
RegionPool ==
    { Region(0, 1000 * Frac, 1000 * Frac),
      Region(1000 * Frac, 1100 * Frac, 100 * Frac),
      Region(1100 * Frac, 42060 * Frac, 40960 * Frac),
      Region(50000 * Frac + 1, 150000 * Frac + 1, 100000 * Frac),
      Region(200000 * Frac, 300000 * Frac, 100000 * Frac),
      Region(300000 * Frac, 300000 * Frac + GB(50) + 1, GB(50) + 1) }

RECURSIVE SeqsUpTo(_, _)
\* all sequences over S of length at most n
SeqsUpTo(S, n) == IF n = 0 THEN {<<>>}
                  ELSE SeqsUpTo(S, n - 1)
                       \cup {Append(q, x) : q \in SeqsUpTo(S, n - 1), x \in S}

RegionLists == SeqsUpTo(RegionPool, MaxRegions)

ArchSizes == {40, 50, 85}
WinSizes == {GiB(100), GiB(60), GiB(60) - 1, GiB(70) + 1}

\* the pipeline as a whole is exercised on these
Configs ==
    {InstallState(d, "wipe", EfiOf(d), EmptyMap, 40, de) : d \in Disks, de \in DEs}
    \cup {InstallState([name |-> SDA], "freespace", e, EmptyMap, 40, de) :
             e \in {EmptyMap, EfiOf([name |-> SDA])}, de \in DEs}
    \cup {InstallState([name |-> SDA], "dualboot", e, w, 40, de) :
             e \in {EmptyMap, EfiOf([name |-> SDA])},
             w \in {EmptyMap, WinOf([name |-> SDA], GiB(100)), WinOf([name |-> SDA], GiB(50))},
             de \in {EmptyMap, [name |-> "GNOME", dm |-> "gdm", packages |-> <<"gnome", "gdm">>]}}
    \cup {InstallState([name |-> SDA], "custom", EmptyMap, EmptyMap, 40, EmptyMap)}

Layouts == { <<>>,
             <<Region(0, 1000 * Frac, 1000 * Frac), Region(1000 * Frac, 1100 * Frac, 100 * Frac)>>,
             <<Region(50000 * Frac + 1, 150000 * Frac + 1, 100000 * Frac)>> }

\* a partition name that does not end with a digit (a label under
\* /dev/disk/by-label, say)
UnnumberedName == <<"d","i","s","k","/","b","y","-","l","a","b","e","l","/","w","i","n">>

\* the disks the partition stage is exercised on
PartDisks == Disks \cup {[name |-> MMCBLK0], [name |-> VDA]}

\* the partition stage alone is exercised on these
PartConfigs ==
    {InstallState([name |-> SDA], mode, e, w, gb, EmptyMap) :
        mode \in {"freespace", "dualboot"},
        e \in {EmptyMap, EfiOf([name |-> SDA])},
        w \in {EmptyMap} \cup {WinOf([name |-> SDA], z) : z \in WinSizes},
        gb \in ArchSizes}
    \cup {InstallState(d, mode, EmptyMap, EmptyMap, 40, EmptyMap) :
        d \in PartDisks, mode \in {"wipe", "custom", "", "WIPE", "dual-boot"}}
    \cup {InstallState([name |-> SDA], "dualboot", EfiOf([name |-> SDA]),
                       [name |-> UnnumberedName, size |-> GiB(100)], 40, EmptyMap)}

NoRegion == Region(-1, -1, -1)

Unreadable == <<"<cannot open>">>

\* /etc/pacman.conf of the live system, line by line
PacmanConfs == { Unreadable,
                 <<"[core]", "[multilib]", "Include = /etc/pacman.d/mirrorlist">>,
                 <<"[core]", "#[multilib]", "#Include = /etc/pacman.d/mirrorlist">> }

\* The lines of /mnt/etc/default/grub are lists of pieces, so that a line
\* starts with "GRUB_THEME=" exactly if that is its first piece.
GrubLine(name, value) == <<name, value>>

\* doGrub: the four lines it appends
GrubFixed ==
    << GrubLine("GRUB_THEME=", "\"/boot/grub/themes/archey/theme.txt\""),
       GrubLine("GRUB_GFXMODE=", "\"auto\""),
       GrubLine("GRUB_GFXPAYLOAD_LINUX=", "\"keep\""),
       GrubLine("GRUB_DISABLE_OS_PROBER=", "false") >>

\* doGrub: the prefixes of the lines it drops
GrubPrefixes == {<<GrubFixed[i][1]>> : i \in 1..Len(GrubFixed)}

\* the file as the grub package ships it, abridged; the last piece is what
\* follows the final newline
GrubDefault ==
    << GrubLine("GRUB_TIMEOUT=", "5"),
       GrubLine("GRUB_GFXMODE=", "auto"),
       GrubLine("GRUB_GFXPAYLOAD_LINUX=", "keep"),
       <<"#", "GRUB_THEME=", "\"/path/to/gfxtheme\"">>,
       <<"#", "GRUB_DISABLE_OS_PROBER=", "false">>,
       <<>> >>

\* lines a default-configuration file may hold: another setting, settings
\* of the four directives (one of them as doGrub writes it), a commented
\* and an indented one, and an empty line
GrubLinePool ==
    { GrubLine("GRUB_TIMEOUT=", "5"),
      GrubLine("GRUB_THEME=", "\"/usr/share/grub/themes/old/theme.txt\""),
      GrubLine("GRUB_GFXMODE=", "640x480"),
      GrubLine("GRUB_DISABLE_OS_PROBER=", "false"),
      <<"#", "GRUB_GFXPAYLOAD_LINUX=", "text">>,
      <<" ", "GRUB_DISABLE_OS_PROBER=", "true">>,
      <<>> }

\* the files before the run: pacman.conf as shipped, whether the bundled
\* theme directory exists, no setup script and no fstab under /mnt yet;
\* grub is what /mnt/etc/default/grub holds when the bootloader stage gets
\* to it, grub_access whether it can then be opened: for reading and
\* writing ("rw"), for reading only ("ro"), or not at all ("none")
FileStates ==
    {f \in [pacman_conf : PacmanConfs, theme : BOOLEAN, script : {FALSE}, fstab : {<<>>},
            grub : {GrubDefault}, grub_access : {"rw", "none"}] :
        f.theme => f.grub_access = "rw"}

\* state after InstallScreen::start: the bar is at 0, the failure label is
\* hidden, the worker holds its copy of the configuration and was started
InitFrom(cfgs, layouts, fileStates, slows) ==
    /\ m_state \in cfgs
    /\ disk_free \in layouts
    /\ slow \in slows
    /\ files \in fileStates
    /\ pc = "run"
    /\ err = NoErr
    /\ trace = <<>>
    /\ efi = <<>>
    /\ root = <<>>
    /\ freeRegions = <<>>
    /\ best = NoRegion
    /\ delivered = 0
    /\ m_progress = 0
    /\ m_failLbl = FALSE
    /\ screen = "SCR_INSTALL"
    /\ wiz = m_state
    /\ m_disk = [m_selectedDisk |-> 0, m_archSizeGb |-> m_state.archSizeGb,
                 m_mode |-> m_state.installMode]
    /\ m_user = [hostname |-> m_state.hostname, username |-> m_state.username,
                 password |-> m_state.password, confirm |-> m_state.password,
                 enabled |-> TRUE]
    /\ confirmed = {"SCR_DISK", "SCR_USER", "SCR_DE", "SCR_HARDWARE", "SCR_PACKAGES",
                    "SCR_SYSTEM"}

\* the same, with every discovery tool finishing within its wait
InitWith(cfgs, layouts, fileStates) == InitFrom(cfgs, layouts, fileStates, {{}})

Init == InitWith(Configs, Layouts, FileStates)

InitPart == InitWith(PartConfigs, RegionLists,
                     {[pacman_conf |-> Unreadable, theme |-> FALSE, script |-> FALSE, fstab |-> <<>>,
                       grub |-> GrubDefault, grub_access |-> "rw"]})

----------------------------------------------------------------------------
(* InstallWorker::run and the partition stage *)

Env == <<m_state, disk_free, slow, files>>
Locals == <<efi, root, freeRegions, best>>
Wizard == <<wiz, m_disk, m_user, confirmed>>
UI == <<delivered, m_progress, m_failLbl, screen, Wizard>>

\* run(): QString disk = "/dev/" + m_state.disk["name"].toString()
disk == DEV \o MapStr(m_state.disk, "name")

\* run(): _progress("Partitioning disk...", 5); doPartition(disk, mode)
run_partition ==
    /\ pc = "run"
    /\ trace' = trace \o _progress(5)
    /\ pc' = "doPartition"
    /\ UNCHANGED <<err, Env, Locals, UI>>

\* a doPartition that treats every unrecognised mode as wipe
doPartition_default_wipe ==
    /\ pc = "doPartition"
    /\ IF m_state.installMode = "freespace" THEN pc' = "partitionFreeSpace"
       ELSE IF m_state.installMode = "dualboot" THEN pc' = "partitionDualBoot"
       ELSE pc' = "partitionWipe"
    /\ UNCHANGED <<trace, err, Env, Locals, UI>>

\* InstallWorker::doPartition
doPartition ==
    /\ pc = "doPartition"
    /\ IF m_state.installMode = "wipe" THEN pc' = "partitionWipe" /\ err' = err
       ELSE IF m_state.installMode = "freespace" THEN pc' = "partitionFreeSpace" /\ err' = err
       ELSE IF m_state.installMode = "dualboot" THEN pc' = "partitionDualBoot" /\ err' = err
       ELSE Throw([kind |-> "UnsupportedMode", mode |-> m_state.installMode])
    /\ UNCHANGED <<trace, Env, Locals, UI>>

\* partitionWipe: _log(...); _run("wipefs", {"-a", disk})
partitionWipe_wipefs ==
    /\ pc = "partitionWipe"
    /\ _run(_log("Wiping"), "wipefs", <<"-a", disk>>, TRUE, "wipe_zap")
    /\ UNCHANGED <<Env, Locals, UI>>

\* partitionWipe: _run("sgdisk", {"--zap-all", disk})
partitionWipe_zap ==
    /\ pc = "wipe_zap"
    /\ _run(<<>>, "sgdisk", <<"--zap-all", disk>>, TRUE, "wipe_create")
    /\ UNCHANGED <<Env, Locals, UI>>

\* partitionWipe: _run("sgdisk", {"-n","1:0:+512M", ... , disk})
partitionWipe_create ==
    /\ pc = "wipe_create"
    /\ _run(<<>>, "sgdisk", <<"-n", "1:0:+512M", "-t", "1:ef00", "-c", "1:EFI",
                              "-n", "2:0:0", "-t", "2:8300", "-c", "2:root", disk>>,
            TRUE, "wipe_probe")
    /\ UNCHANGED <<Env, Locals, UI>>

\* partitionWipe: _run("partprobe", {disk})
partitionWipe_probe ==
    /\ pc = "wipe_probe"
    /\ _run(<<>>, "partprobe", <<disk>>, TRUE, "wipe_return")
    /\ UNCHANGED <<Env, Locals, UI>>

\* a return that also notes the EFI partition it made in the configuration
partitionWipe_return_records ==
    /\ pc = "wipe_return"
    /\ efi' = partName(disk, 1)
    /\ root' = partName(disk, 2)
    /\ m_state' = [m_state EXCEPT !.efiPartition = [name |-> efi']]
    /\ trace' = trace \o _log("Created")
    /\ pc' = "run_format"
    /\ UNCHANGED <<err, disk_free, slow, files, freeRegions, best, UI>>

\* partitionWipe: efi = partName(disk, 1); root = partName(disk, 2); return {efi, root}
partitionWipe_return ==
    /\ pc = "wipe_return"
    /\ efi' = partName(disk, 1)
    /\ root' = partName(disk, 2)
    /\ trace' = trace \o _log("Created")
    /\ pc' = "run_format"
    /\ UNCHANGED <<err, Env, freeRegions, best, UI>>

RECURSIVE SelectBest_first_fit(_, _, _)
\* a selection that settles for the first region that is large enough
SelectBest_first_fit(regions, needMb, b) ==
    IF regions = <<>> THEN b
    ELSE LET r == Head(regions)
         IN SelectBest_first_fit(Tail(regions), needMb,
                                 IF r.sizeMb >= needMb /\ b.sizeMb < 0 THEN r ELSE b)

RECURSIVE SelectBest(_, _, _)
RECURSIVE SelectBest_last_wins(_, _, _)

\* a loop that lets a later region of the same size replace the best one
SelectBest_last_wins(regions, needMb, b) ==
    IF regions = <<>> THEN b
    ELSE LET r == Head(regions)
         IN SelectBest_last_wins(Tail(regions), needMb,
                                 IF r.sizeMb >= needMb /\ r.sizeMb >= b.sizeMb THEN r ELSE b)

\* partitionFreeSpace: the loop over freeRegions that keeps the best region
SelectBest(regions, needMb, b) ==
    IF regions = <<>> THEN b
    ELSE LET r == Head(regions)
         IN SelectBest(Tail(regions), needMb,
                       IF r.sizeMb >= needMb /\ r.sizeMb > b.sizeMb THEN r ELSE b)

\* all orderings of the elements of S
RECURSIVE Perms(_)
Perms(S) == IF S = {} THEN {<<>>}
            ELSE UNION {{<<x>> \o q : q \in Perms(S \ {x})} : x \in S}

\* What "lsblk -ln -o NAME disk" may print after the new partition was
\* created: nothing, or the disk followed by its partitions (the two that
\* existed before and the new one) in some order.
Listings ==
    LET d == MapStr(m_state.disk, "name")
    IN {<<>>} \cup {<<d>> \o q : q \in Perms({partName(d, 1), partName(d, 2), partName(d, 3)})}

\* the discovery tools the worker waits for with a bounded wait:
\* p.waitForFinished(10000) on parted's query, lp.waitForFinished(5000) on
\* lsblk, p.waitForFinished(10000) on genfstab
DiscoveryTools == {"parted", "lsblk", "genfstab"}

\* the leading parts of an output
Prefixes(s) == {SubSeq(s, 1, n) : n \in 0..Len(s)}

\* QProcess::exitCode() after waitForFinished, whose result the worker
\* drops: the exit code of a tool that finished, 0 for one still running
ExitCodes(tool) == IF tool \in slow THEN {0} ELSE {0, 1}

\* readAllStandardOutput() after waitForFinished: all that a finished tool
\* printed, what a tool still running printed so far
ReadOutput(tool, full) == IF tool \in slow THEN Prefixes(full) ELSE {full}

\* partitionFreeSpace up to the choice of the region: the EFI check, the
\* "parted print free" query, the parse of its output and the selection
partitionFreeSpace_query ==
    /\ pc = "partitionFreeSpace"
    /\ IF isEmpty(m_state.efiPartition)
       THEN /\ Throw([kind |-> "MissingEFIPartition", mode |-> "freespace"])
            /\ UNCHANGED <<trace, freeRegions, best>>
       ELSE /\ trace' = trace \o _log("Creating root partition")
                         \o <<CmdE("parted", <<"-s", disk, "unit", "MB", "print", "free">>)>>
            /\ \E exitCode \in ExitCodes("parted"), out \in ReadOutput("parted", disk_free) :
                 IF exitCode # 0
                 THEN /\ Throw([kind |-> "InspectionFailed", code |-> exitCode])
                      /\ UNCHANGED <<freeRegions, best>>
                 ELSE /\ freeRegions' = out
                      /\ best' = SelectBest(out, GB(m_state.archSizeGb), NoRegion)
                      /\ IF out = <<>>
                         THEN Throw([kind |-> "NoFreeSpace"])
                         ELSE IF best'.sizeMb < 0
                         THEN Throw([kind |-> "InsufficientFreeSpace",
                                     needMb |-> m_state.archSizeGb * 1024])
                         ELSE pc' = "fs_mkpart" /\ err' = err
    /\ UNCHANGED <<Env, efi, root, UI>>

\* partitionFreeSpace: int startMb = static_cast<int>(best.startMb)
fs_startMb == best.startMb \div Frac

\* an end offset that takes the whole selected region
fs_endMb_region_end == best.endMb \div Frac

\* partitionFreeSpace: int endMb = static_cast<int>(startMb + needMb)
fs_endMb == fs_startMb + m_state.archSizeGb * 1024

\* partitionFreeSpace: _log("Using free region..."); _run("parted", {... "mkpart" ...})
partitionFreeSpace_mkpart ==
    /\ pc = "fs_mkpart"
    /\ _run(_log("Using free region"), "parted",
            <<"-s", disk, "mkpart", "primary", "ext4",
              NumStr(fs_startMb) \o MB, NumStr(fs_endMb) \o MB>>, TRUE, "fs_probe")
    /\ UNCHANGED <<Env, Locals, UI>>

\* partitionFreeSpace: _run("partprobe", {disk})
partitionFreeSpace_probe ==
    /\ pc = "fs_probe"
    /\ _run(<<>>, "partprobe", <<disk>>, TRUE, "fs_lsblk")
    /\ UNCHANGED <<Env, Locals, UI>>

\* the tail shared by partitionFreeSpace and partitionDualBoot: list the
\* disk with lsblk, fail on an empty listing, else return
\* {efi, "/dev/" + lines.last().trimmed()}
DetectRoot ==
    /\ trace' = trace \o <<CmdE("lsblk", <<"-ln", "-o", "NAME", disk>>)>>
    /\ \E lines \in UNION {ReadOutput("lsblk", l) : l \in Listings} :
         IF lines = <<>>
         THEN /\ Throw([kind |-> "PartitionDetectionFailed"])
              /\ UNCHANGED <<efi, root, freeRegions, best>>
         ELSE /\ efi' = DEV \o MapStr(m_state.efiPartition, "name")
              /\ root' = DEV \o lines[Len(lines)]
              /\ freeRegions' = <<>>
              /\ best' = NoRegion
              /\ pc' = "run_format"
              /\ err' = err

\* partitionFreeSpace: lsblk and return
partitionFreeSpace_lsblk ==
    /\ pc = "fs_lsblk"
    /\ DetectRoot
    /\ UNCHANGED <<Env, UI>>

IsDigit(c) == \E i \in 1..10 : Digits[i] = c

\* the digits a string ends with (empty when it does not end with a digit)
RECURSIVE TrailingDigits(_)
TrailingDigits(s) ==
    IF s = <<>> \/ ~IsDigit(s[Len(s)]) THEN <<>>
    ELSE TrailingDigits(SubSeq(s, 1, Len(s) - 1)) \o <<s[Len(s)]>>

\* InstallWorker::extractPartitionNumber: the capture of p(\d+)$ if that
\* matches, else the capture of (\d+)$, else the empty string
extractPartitionNumber(devPath) ==
    LET ds == TrailingDigits(devPath)
        before == Len(devPath) - Len(ds)
        m1 == ds # <<>> /\ before >= 1 /\ devPath[before] = "p"
        m2 == ds # <<>>
    IN IF m1 THEN ds ELSE IF m2 THEN ds ELSE <<>>

\* partitionDualBoot: QString win = "/dev/" + m_state.windowsPartition["name"].toString()
win == DEV \o MapStr(m_state.windowsPartition, "name")

\* partitionDualBoot: shrinkTo = winGb - archSizeGb, here in KiB
\* (winGb is size / 2^30 and the model counts the size in KiB)
shrinkTo == MapNum(m_state.windowsPartition, "size") - GiB(m_state.archSizeGb)

\* a size check that also rejects a remainder of exactly 20 GB
tooSmall_inclusive == shrinkTo <= GiB(20)

\* partitionDualBoot: if (shrinkTo < 20) throw ...
tooSmall == shrinkTo < GiB(20)

\* a boundary that is rounded up to the next MB instead of truncated
shrinkMb_rounded_up == (shrinkTo + 1023) \div 1024

\* partitionDualBoot: int shrinkMb = static_cast<int>(shrinkTo * 1024), the boundary in MB
shrinkMb == shrinkTo \div 1024

\* partitionDualBoot: int endMb = shrinkMb + static_cast<int>(archSizeGb * 1024)
db_endMb == shrinkMb + m_state.archSizeGb * 1024

\* n rendered with exactly four digits
Pad4(n) == <<Digits[(n \div 1000) + 1], Digits[((n \div 100) % 10) + 1],
             Digits[((n \div 10) % 10) + 1], Digits[(n % 10) + 1]>>

\* partitionDualBoot: QString::number(shrinkBytes) with
\* shrinkBytes = static_cast<qint64>(shrinkTo * 1024 * 1024 * 1024), that is
\* 1024 times the KiB count; the product is formed in two halves so that
\* no intermediate value leaves 32 bits
shrinkBytesStr ==
    LET a == shrinkTo \div 10000
        b == shrinkTo % 10000
        hi == a * 1024 + ((b * 1024) \div 10000)
        lo == (b * 1024) % 10000
    IN IF hi = 0 THEN NumStr(lo) ELSE NumStr(hi) \o Pad4(lo)

\* a partitionDualBoot that looks at the other-OS descriptor before the
\* EFI descriptor
partitionDualBoot_win_first ==
    /\ pc = "partitionDualBoot"
    /\ IF isEmpty(m_state.windowsPartition)
       THEN Throw([kind |-> "MissingOtherOSPartition"]) /\ UNCHANGED trace
       ELSE IF isEmpty(m_state.efiPartition)
       THEN Throw([kind |-> "MissingEFIPartition", mode |-> "dualboot"]) /\ UNCHANGED trace
       ELSE IF tooSmall
       THEN Throw([kind |-> "ShrinkTooSmall", shrinkTo |-> shrinkTo]) /\ UNCHANGED trace
       ELSE _run(_log("Shrinking Windows partition"), "ntfsresize",
                 <<"--force", "--size", shrinkBytesStr, win>>, TRUE, "db_resizepart")
    /\ UNCHANGED <<Env, Locals, UI>>

\* partitionDualBoot up to the filesystem shrink: the descriptor checks,
\* the size check and _run("ntfsresize", ...)
partitionDualBoot_ntfsresize ==
    /\ pc = "partitionDualBoot"
    /\ IF isEmpty(m_state.efiPartition)
       THEN Throw([kind |-> "MissingEFIPartition", mode |-> "dualboot"]) /\ UNCHANGED trace
       ELSE IF isEmpty(m_state.windowsPartition)
       THEN Throw([kind |-> "MissingOtherOSPartition"]) /\ UNCHANGED trace
       ELSE IF tooSmall
       THEN Throw([kind |-> "ShrinkTooSmall", shrinkTo |-> shrinkTo]) /\ UNCHANGED trace
       ELSE _run(_log("Shrinking Windows partition"), "ntfsresize",
                 <<"--force", "--size", shrinkBytesStr, win>>, TRUE, "db_resizepart")
    /\ UNCHANGED <<Env, Locals, UI>>

\* partitionDualBoot: extractPartitionNumber(win), then
\* _run("parted", {"-s", disk, "resizepart", winNum, <shrinkTo in MB>})
partitionDualBoot_resizepart ==
    /\ pc = "db_resizepart"
    /\ IF extractPartitionNumber(win) = <<>>
       THEN Throw([kind |-> "PartitionNumberUnresolvable"]) /\ UNCHANGED trace
       ELSE _run(<<>>, "parted",
                 <<"-s", disk, "resizepart", extractPartitionNumber(win),
                   NumStr(shrinkTo \div 1024) \o MB>>, TRUE, "db_probe1")
    /\ UNCHANGED <<Env, Locals, UI>>

\* a rescan whose failure is passed over
partitionDualBoot_probe1_unchecked ==
    /\ pc = "db_probe1"
    /\ _run(<<>>, "partprobe", <<disk>>, FALSE, "db_mkpart")
    /\ UNCHANGED <<Env, Locals, UI>>

\* partitionDualBoot: the first _run("partprobe", {disk})
partitionDualBoot_probe1 ==
    /\ pc = "db_probe1"
    /\ _run(<<>>, "partprobe", <<disk>>, TRUE, "db_mkpart")
    /\ UNCHANGED <<Env, Locals, UI>>

\* partitionDualBoot: _run("parted", {"-s", disk, "mkpart", "primary", "ext4", shrinkMb, endMb})
partitionDualBoot_mkpart ==
    /\ pc = "db_mkpart"
    /\ _run(<<>>, "parted",
            <<"-s", disk, "mkpart", "primary", "ext4",
              NumStr(shrinkMb) \o MB, NumStr(db_endMb) \o MB>>, TRUE, "db_probe2")
    /\ UNCHANGED <<Env, Locals, UI>>

\* partitionDualBoot: the second _run("partprobe", {disk})
partitionDualBoot_probe2 ==
    /\ pc = "db_probe2"
    /\ _run(<<>>, "partprobe", <<disk>>, TRUE, "db_lsblk")
    /\ UNCHANGED <<Env, Locals, UI>>

\* partitionDualBoot: lsblk and return
partitionDualBoot_lsblk ==
    /\ pc = "db_lsblk"
    /\ DetectRoot
    /\ UNCHANGED <<Env, UI>>

----------------------------------------------------------------------------
(* format, mount, bootstrap *)

\* a run() that calls doFormat without announcing the stage
run_format_unannounced ==
    /\ pc = "run_format"
    /\ trace' = trace
    /\ pc' = "doFormat"
    /\ UNCHANGED <<err, Env, Locals, UI>>

\* run(): _progress("Formatting partitions...", 15); doFormat(efi, root, mode)
run_format ==
    /\ pc = "run_format"
    /\ trace' = trace \o _progress(15)
    /\ pc' = "doFormat"
    /\ UNCHANGED <<err, Env, Locals, UI>>

\* doFormat: _run("mkfs.ext4", {"-F", root})
doFormat_root ==
    /\ pc = "doFormat"
    /\ _run(_log("Formatting root"), "mkfs.ext4", <<"-F", root>>, TRUE,
            IF m_state.installMode = "wipe" THEN "format_efi" ELSE "run_mount")
    /\ UNCHANGED <<Env, Locals, UI>>

\* doFormat: if (mode == "wipe") _run("mkfs.fat", {"-F32", efi})
doFormat_efi ==
    /\ pc = "format_efi"
    /\ _run(_log("Formatting EFI"), "mkfs.fat", <<"-F32", efi>>, TRUE, "run_mount")
    /\ UNCHANGED <<Env, Locals, UI>>

\* run(): _progress("Mounting partitions...", 20); doMount(efi, root)
run_mount ==
    /\ pc = "run_mount"
    /\ trace' = trace \o _progress(20)
    /\ pc' = "doMount"
    /\ UNCHANGED <<err, Env, Locals, UI>>

\* a root mount whose failure is passed over
doMount_root_unchecked ==
    /\ pc = "doMount"
    /\ _run(<<>>, "mount", <<root, "/mnt">>, FALSE, "mount_efi")
    /\ UNCHANGED <<Env, Locals, UI>>

\* doMount: _run("mount", {root, "/mnt"})
doMount_root ==
    /\ pc = "doMount"
    /\ _run(<<>>, "mount", <<root, "/mnt">>, TRUE, "mount_efi")
    /\ UNCHANGED <<Env, Locals, UI>>

\* doMount: _run("mount", {efi, "/mnt/boot/efi"})
doMount_efi ==
    /\ pc = "mount_efi"
    /\ _run(<<>>, "mount", <<efi, "/mnt/boot/efi">>, TRUE, "run_pacstrap")
    /\ UNCHANGED <<Env, Locals, UI>>

\* run(): _progress("Installing base system...", 25); doPacstrap()
run_pacstrap ==
    /\ pc = "run_pacstrap"
    /\ trace' = trace \o _progress(25)
    /\ pc' = "doPacstrap"
    /\ UNCHANGED <<err, Env, Locals, UI>>

\* doPacstrap: the fixed base package list
BASE == <<"base", "base-devel", "linux", "linux-firmware",
          "linux-headers", "mkinitcpio", "networkmanager", "iwd",
          "sudo", "nano", "vim", "git", "curl", "wget",
          "grub", "efibootmgr", "os-prober",
          "bash-completion", "man-db", "man-pages">>

\* the elements of a list, as a set
Elems(q) == {q[i] : i \in 1..Len(q)}

RECURSIVE AddExtras(_, _, _)

\* a loop that stops after its first round, and adds without looking
AddExtras_first_only(pkgs, extras, dePkgs) ==
    IF extras = <<>> THEN pkgs ELSE Append(pkgs, Head(extras))

\* doPacstrap: the loop over userPackages + systemPackages
AddExtras(pkgs, extras, dePkgs) ==
    IF extras = <<>> THEN pkgs
    ELSE LET p == Head(extras)
         IN AddExtras(IF p \notin Elems(pkgs) /\ p \notin Elems(dePkgs)
                      THEN Append(pkgs, p) ELSE pkgs,
                      Tail(extras), dePkgs)

\* doPacstrap: the package list handed to pacstrap
pacstrapPkgs ==
    AddExtras(BASE \o m_state.cpuPackages \o m_state.gpuPackages,
              m_state.userPackages \o m_state.systemPackages,
              MapList(m_state.de, "packages"))

\* enableMultilib: conf.contains("#[multilib]")
HasCommentedMultilib(conf) == \E i \in 1..Len(conf) : conf[i] = "#[multilib]"

\* enableMultilib: conf.replace("#[multilib]\n#Include", "[multilib]\nInclude")
UncommentMultilib(conf) ==
    [i \in 1..Len(conf) |->
        IF conf[i] = "#[multilib]" /\ i < Len(conf)
           /\ conf[i + 1] = "#Include = /etc/pacman.d/mirrorlist"
        THEN "[multilib]"
        ELSE IF i > 1 /\ conf[i - 1] = "#[multilib]"
                /\ conf[i] = "#Include = /etc/pacman.d/mirrorlist"
        THEN "Include = /etc/pacman.d/mirrorlist"
        ELSE conf[i]]

\* InstallWorker::enableMultilib, called first thing by doPacstrap
enableMultilib ==
    /\ pc = "doPacstrap"
    /\ IF files.pacman_conf = Unreadable \/ ~HasCommentedMultilib(files.pacman_conf)
       THEN /\ pc' = "pacstrap_run"
            /\ UNCHANGED <<trace, err, files>>
       ELSE /\ \E canWrite \in BOOLEAN :
                 files' = IF canWrite
                          THEN [files EXCEPT !.pacman_conf = UncommentMultilib(@)]
                          ELSE files
            /\ _run(<<>>, "pacman", <<"-Sy", "--noconfirm">>, TRUE, "multilib_done")
    /\ UNCHANGED <<m_state, disk_free, slow, Locals, UI>>

\* enableMultilib: _log("Multilib enabled on live ISO")
enableMultilib_done ==
    /\ pc = "multilib_done"
    /\ trace' = trace \o _log("Multilib enabled")
    /\ pc' = "pacstrap_run"
    /\ UNCHANGED <<err, Env, Locals, UI>>

\* doPacstrap: _run("pacstrap", {"/mnt"} + pkgs)
doPacstrap_run ==
    /\ pc = "pacstrap_run"
    /\ _run(_log("Running pacstrap"), "pacstrap", <<"/mnt">> \o pacstrapPkgs, TRUE, "run_fstab")
    /\ UNCHANGED <<Env, Locals, UI>>

----------------------------------------------------------------------------
(* fstab, configure, bootloader, desktop, cleanup *)

\* run(): _progress("Generating fstab...", 60); doFstab()
run_fstab ==
    /\ pc = "run_fstab"
    /\ trace' = trace \o _progress(60)
    /\ pc' = "doFstab"
    /\ UNCHANGED <<err, Env, Locals, UI>>

\* what genfstab may print, line by line: nothing, blank lines only, or a
\* table between a blank line and the final newline
FstabOutputs == { <<>>,
                  <<"", " ", "">>,
                  <<"", "UUID=root / ext4", "UUID=efi /boot/efi vfat", "">> }

\* a line that consists of white space only
IsBlankLine(l) == l \in {"", " "}

RECURSIVE trimmed(_)

\* a trim that leaves the text as it is
trimmed_identity(lines) == lines

\* QString::trimmed(), on a text given line by line: white space at both
\* ends goes, blank lines included
trimmed(lines) ==
    IF lines = <<>> THEN <<>>
    ELSE IF IsBlankLine(Head(lines)) THEN trimmed(Tail(lines))
    ELSE IF IsBlankLine(lines[Len(lines)]) THEN trimmed(SubSeq(lines, 1, Len(lines) - 1))
    ELSE lines

\* doFstab's QProcess as the trace records it: the exit code and the
\* output of genfstab, and whether /mnt/etc/fstab was then opened for
\* writing ("no": never tried, "failed", "ok")
FstabE(exitCode, output, opened) ==
    [k |-> "cmd", prog |-> "genfstab", args |-> <<"-U", "/mnt">>,
     exit |-> exitCode, output |-> output, opened |-> opened]

\* InstallWorker::doFstab
doFstab ==
    /\ pc = "doFstab"
    /\ \E exitCode \in ExitCodes("genfstab"),
          output \in UNION {ReadOutput("genfstab", o) : o \in FstabOutputs} :
         LET fstab == trimmed(output)
         IN IF exitCode # 0
            THEN /\ Throw([kind |-> "FstabGenerationFailed", code |-> exitCode])
                 /\ trace' = Append(trace, FstabE(exitCode, output, "no"))
                 /\ UNCHANGED files
            ELSE IF fstab = <<>>
            THEN /\ Throw([kind |-> "FstabEmpty"])
                 /\ trace' = Append(trace, FstabE(exitCode, output, "no"))
                 /\ UNCHANGED files
            ELSE \E canWrite \in BOOLEAN :
                 IF ~canWrite
                 THEN /\ Throw([kind |-> "FstabWriteFailed"])
                      /\ trace' = Append(trace, FstabE(exitCode, output, "failed"))
                      /\ UNCHANGED files
                 ELSE /\ files' = [files EXCEPT !.fstab = fstab \o <<"">>]
                      /\ trace' = Append(trace, FstabE(exitCode, output, "ok"))
                                      \o _log("fstab generated")
                      /\ pc' = "run_configure"
                      /\ err' = err
    /\ UNCHANGED <<m_state, disk_free, slow, Locals, UI>>

\* run(): _progress("Configuring system...", 65); doConfigure()
run_configure ==
    /\ pc = "run_configure"
    /\ trace' = trace \o _progress(65)
    /\ pc' = "doConfigure"
    /\ UNCHANGED <<err, Env, Locals, UI>>

\* doConfigure: write /mnt/root/arch_setup.sh, then
\* _run("arch-chroot", {"/mnt", "/root/arch_setup.sh"})
doConfigure_script ==
    /\ pc = "doConfigure"
    /\ \E canWrite \in BOOLEAN :
         IF ~canWrite
         THEN /\ Throw([kind |-> "ChrootScriptWriteFailed"])
              /\ UNCHANGED <<trace, files>>
         ELSE /\ files' = [files EXCEPT !.script = TRUE]
              /\ _run(_log("Running chroot configuration script"), "arch-chroot",
                      <<"/mnt", "/root/arch_setup.sh">>, TRUE, "configure_remove")
    /\ UNCHANGED <<m_state, disk_free, slow, Locals, UI>>

\* doConfigure: QFile::remove(scriptPath)
doConfigure_remove ==
    /\ pc = "configure_remove"
    /\ files' = [files EXCEPT !.script = FALSE]
    /\ pc' = "run_grub"
    /\ UNCHANGED <<trace, err, m_state, disk_free, slow, Locals, UI>>

\* run(): _progress("Installing bootloader...", 85); doGrub()
run_grub ==
    /\ pc = "run_grub"
    /\ trace' = trace \o _progress(85)
    /\ pc' = "doGrub"
    /\ UNCHANGED <<err, Env, Locals, UI>>

\* doGrub: _run("arch-chroot", {"/mnt", "grub-install", ...})
doGrub_install ==
    /\ pc = "doGrub"
    /\ _run(<<>>, "arch-chroot",
            <<"/mnt", "grub-install", "--target=x86_64-efi", "--efi-directory=/boot/efi",
              "--bootloader-id=Archey", "--recheck", "--removable">>, TRUE, "grub_theme")
    /\ UNCHANGED <<Env, Locals, UI>>

\* a rewrite that drops nothing
GrubRewrite_append_only(lines) == lines \o <<<<>>>> \o GrubFixed

\* doGrub: the lines written back to /mnt/etc/default/grub, from the lines
\* read: those that start with none of the four prefixes, an empty line,
\* and the four fixed lines
GrubRewrite(lines) ==
    SelectSeq(lines, LAMBDA l : \A pre \in GrubPrefixes : ~StartsWith(l, pre))
        \o <<<<>>>> \o GrubFixed

\* a stage that gives up when /mnt/etc/default/grub cannot be read
doGrub_theme_needs_config ==
    /\ pc = "grub_theme"
    /\ trace' = trace \o (IF files.theme THEN _log("Copying Archey GRUB theme...") ELSE <<>>)
    /\ files' = IF files.grub_access = "rw"
                THEN [files EXCEPT !.grub = GrubRewrite(@)]
                ELSE files
    /\ IF files.grub_access = "none"
       THEN Throw([kind |-> "GrubConfigUnreadable"])
       ELSE /\ pc' = IF m_state.installMode = "dualboot" THEN "grub_osprober" ELSE "grub_mkconfig"
            /\ err' = err
    /\ UNCHANGED <<m_state, disk_free, slow, Locals, UI>>

\* doGrub: copy the theme if the bundled directory exists, rewrite
\* /mnt/etc/default/grub if it opens for reading and then for writing,
\* then branch on the mode
doGrub_theme ==
    /\ pc = "grub_theme"
    /\ trace' = trace \o (IF files.theme THEN _log("Copying Archey GRUB theme...") ELSE <<>>)
    /\ files' = IF files.grub_access = "rw"
                THEN [files EXCEPT !.grub = GrubRewrite(@)]
                ELSE files
    /\ pc' = IF m_state.installMode = "dualboot" THEN "grub_osprober" ELSE "grub_mkconfig"
    /\ UNCHANGED <<err, m_state, disk_free, slow, Locals, UI>>

\* doGrub: if (installMode == "dualboot") _run("arch-chroot", {"/mnt","os-prober"}, false)
doGrub_osprober ==
    /\ pc = "grub_osprober"
    /\ _run(<<>>, "arch-chroot", <<"/mnt", "os-prober">>, FALSE, "grub_mkconfig")
    /\ UNCHANGED <<Env, Locals, UI>>

\* doGrub: _run("arch-chroot", {"/mnt","grub-mkconfig","-o","/boot/grub/grub.cfg"})
doGrub_mkconfig ==
    /\ pc = "grub_mkconfig"
    /\ _run(<<>>, "arch-chroot", <<"/mnt", "grub-mkconfig", "-o", "/boot/grub/grub.cfg">>,
            TRUE, "grub_return")
    /\ UNCHANGED <<Env, Locals, UI>>

\* doGrub: _log("GRUB installed")
doGrub_return ==
    /\ pc = "grub_return"
    /\ trace' = trace \o _log("GRUB installed")
    /\ pc' = "run_de"
    /\ UNCHANGED <<err, Env, Locals, UI>>

\* a test that takes every non-empty desktop descriptor for a selection
deSelected_any_descriptor == ~isEmpty(m_state.de)

\* run(): !m_state.de.isEmpty() && !m_state.de["packages"].toStringList().isEmpty()
deSelected == ~isEmpty(m_state.de) /\ MapList(m_state.de, "packages") # <<>>

\* run(): if (<desktop selected>) { _progress("Installing desktop environment...", 88); doDE(); }
run_de ==
    /\ pc = "run_de"
    /\ IF deSelected
       THEN trace' = trace \o _progress(88) /\ pc' = "doDE"
       ELSE trace' = trace /\ pc' = "run_cleanup"
    /\ UNCHANGED <<err, Env, Locals, UI>>

\* a desktop install that asks for the first package of the list only
doDE_install_first_only ==
    /\ pc = "doDE"
    /\ _run(_log("Installing DE"), "arch-chroot",
            <<"/mnt", "pacman", "-S", "--noconfirm", MapList(m_state.de, "packages")[1]>>,
            TRUE, "de_dm")
    /\ UNCHANGED <<Env, Locals, UI>>

\* doDE: _run("arch-chroot", {"/mnt","pacman","-S","--noconfirm"} + pkgs)
doDE_install ==
    /\ pc = "doDE"
    /\ _run(_log("Installing DE"), "arch-chroot",
            <<"/mnt", "pacman", "-S", "--noconfirm">> \o MapList(m_state.de, "packages"),
            TRUE, "de_dm")
    /\ UNCHANGED <<Env, Locals, UI>>

\* doDE: if (!dm.isEmpty()) _run("arch-chroot", {"/mnt","systemctl","enable", dm}, false)
doDE_dm ==
    /\ pc = "de_dm"
    /\ IF MapText(m_state.de, "dm") # ""
       THEN _run(<<>>, "arch-chroot", <<"/mnt", "systemctl", "enable", MapText(m_state.de, "dm")>>,
                 FALSE, "run_cleanup")
       ELSE pc' = "run_cleanup" /\ UNCHANGED <<trace, err>>
    /\ UNCHANGED <<Env, Locals, UI>>

\* a run() that announces the cleanup at 95 instead of 97
run_cleanup_95 ==
    /\ pc = "run_cleanup"
    /\ trace' = trace \o _progress(95)
    /\ pc' = "doCleanup"
    /\ UNCHANGED <<err, Env, Locals, UI>>

\* run(): _progress("Cleaning up...", 97); doCleanup()
run_cleanup ==
    /\ pc = "run_cleanup"
    /\ trace' = trace \o _progress(97)
    /\ pc' = "doCleanup"
    /\ UNCHANGED <<err, Env, Locals, UI>>

\* doCleanup: _run("sync", {}, false)
doCleanup_sync ==
    /\ pc = "doCleanup"
    /\ _run(<<>>, "sync", <<>>, FALSE, "cleanup_umount")
    /\ UNCHANGED <<Env, Locals, UI>>

\* a doCleanup whose unmount is run with check = true
doCleanup_umount_checked ==
    /\ pc = "cleanup_umount"
    /\ _run(<<>>, "umount", <<"-R", "/mnt">>, TRUE, "run_done")
    /\ UNCHANGED <<Env, Locals, UI>>

\* doCleanup: _run("umount", {"-R","/mnt"}, false)
doCleanup_umount ==
    /\ pc = "cleanup_umount"
    /\ _run(<<>>, "umount", <<"-R", "/mnt">>, FALSE, "run_done")
    /\ UNCHANGED <<Env, Locals, UI>>

\* a run() that emits succeeded before the final progress event
run_done_succeeded_first ==
    /\ pc = "run_done"
    /\ trace' = trace \o <<SuccE>> \o _progress(100)
    /\ pc' = "done"
    /\ UNCHANGED <<err, Env, Locals, UI>>

\* run(): _progress("Installation complete!", 100); emit succeeded()
run_done ==
    /\ pc = "run_done"
    /\ trace' = trace \o _progress(100) \o <<SuccE>>
    /\ pc' = "done"
    /\ UNCHANGED <<err, Env, Locals, UI>>

\* a catch handler that reports the failure and then still runs the cleanup
run_catch_then_cleanup ==
    /\ pc = "catch"
    /\ trace' = trace \o <<FailedE(err)>>
    /\ pc' = "doCleanup"
    /\ UNCHANGED <<err, Env, Locals, UI>>

\* run(): catch (const std::exception& e) { emit failed(e.what()); }
run_catch ==
    /\ pc = "catch"
    /\ trace' = trace \o <<FailedE(err)>>
    /\ pc' = "done"
    /\ UNCHANGED <<err, Env, Locals, UI>>

\* the partition stage: run() up to the return of doPartition
\* the package lists the wizard may hand over: the names are one that is
\* in BASE, one that the desktop brings along and one that nothing else has
PkgPool == {"git", "gdm", "htop"}

PkgLists == SeqsUpTo(PkgPool, MaxPkgs)

\* the bootstrap stage is exercised on these: a wiped disk, and every
\* choice of the user's and the system's extra packages
PkgConfigs ==
    {[InstallState([name |-> SDA], "wipe", EmptyMap, EmptyMap, 40, de)
        EXCEPT !.cpuPackages = <<"intel-ucode">>,
               !.gpuPackages = <<"mesa", "vulkan-intel">>,
               !.userPackages = u, !.systemPackages = y] :
        u \in PkgLists, y \in PkgLists,
        de \in {EmptyMap, [name |-> "GNOME", dm |-> "gdm", packages |-> <<"gnome", "gdm">>]}}

InitPkgs == InitWith(PkgConfigs, {<<>>},
                     {[pacman_conf |-> <<"[core]", "#[multilib]", "#Include = /etc/pacman.d/mirrorlist">>,
                       theme |-> FALSE, script |-> FALSE, fstab |-> <<>>,
                       grub |-> GrubDefault, grub_access |-> "rw"]})

NextPart ==
    \/ run_partition
    \/ doPartition
    \/ partitionWipe_wipefs
    \/ partitionWipe_zap
    \/ partitionWipe_create
    \/ partitionWipe_probe
    \/ partitionWipe_return
    \/ partitionFreeSpace_query
    \/ partitionFreeSpace_mkpart
    \/ partitionFreeSpace_probe
    \/ partitionFreeSpace_lsblk
    \/ partitionDualBoot_ntfsresize
    \/ partitionDualBoot_resizepart
    \/ partitionDualBoot_probe1
    \/ partitionDualBoot_mkpart
    \/ partitionDualBoot_probe2
    \/ partitionDualBoot_lsblk
    \/ run_catch

SpecPart == InitPart /\ [][NextPart]_vars

\* one step of the worker thread
Next ==
    \/ NextPart
    \/ run_format
    \/ doFormat_root
    \/ doFormat_efi
    \/ run_mount
    \/ doMount_root
    \/ doMount_efi
    \/ run_pacstrap
    \/ enableMultilib
    \/ enableMultilib_done
    \/ doPacstrap_run
    \/ run_fstab
    \/ doFstab
    \/ run_configure
    \/ doConfigure_script
    \/ doConfigure_remove
    \/ run_grub
    \/ doGrub_install
    \/ doGrub_theme
    \/ doGrub_osprober
    \/ doGrub_mkconfig
    \/ doGrub_return
    \/ run_de
    \/ doDE_install
    \/ doDE_dm
    \/ run_cleanup
    \/ doCleanup_sync
    \/ doCleanup_umount
    \/ run_done

Spec == Init /\ [][Next]_vars

\* the worker on a wiped disk, up to the end of the bootstrap stage
NextPkgs ==
    \/ run_partition
    \/ doPartition
    \/ partitionWipe_wipefs
    \/ partitionWipe_zap
    \/ partitionWipe_create
    \/ partitionWipe_probe
    \/ partitionWipe_return
    \/ run_format
    \/ doFormat_root
    \/ doFormat_efi
    \/ run_mount
    \/ doMount_root
    \/ doMount_efi
    \/ run_pacstrap
    \/ enableMultilib
    \/ enableMultilib_done
    \/ doPacstrap_run
    \/ run_catch

SpecPkgs == InitPkgs /\ [][NextPkgs]_vars

\* /etc/pacman.conf files for enableMultilib: those of PacmanConfs, one
\* whose commented section is followed by another commented setting, and
\* one that names the commented section on its last line
MultilibConfs ==
    PacmanConfs
    \cup { <<"[core]", "#[multilib]", "#SigLevel = Optional", "#Include = /etc/pacman.d/mirrorlist">>,
           <<"[core]", "[multilib]", "Include = /etc/pacman.d/mirrorlist", "#[multilib]">> }

\* the bootstrap stage on a wiped disk, with every such pacman.conf
InitMultilib ==
    InitWith({InstallState([name |-> SDA], "wipe", EmptyMap, EmptyMap, 40, EmptyMap)}, {<<>>},
             [pacman_conf : MultilibConfs, theme : {FALSE}, script : {FALSE}, fstab : {<<>>},
              grub : {GrubDefault}, grub_access : {"rw"}])

SpecMultilib == InitMultilib /\ [][NextPkgs]_vars

\* the bootloader stage is exercised on a wiped disk, with every
\* default-configuration file of up to MaxGrubLines lines
InitGrub ==
    InitWith({InstallState([name |-> SDA], "wipe", EmptyMap, EmptyMap, 40, EmptyMap)}, {<<>>},
             [pacman_conf : {<<"[core]", "#[multilib]", "#Include = /etc/pacman.d/mirrorlist">>},
              theme : BOOLEAN, script : {FALSE}, fstab : {<<>>},
              grub : SeqsUpTo(GrubLinePool, MaxGrubLines), grub_access : {"rw", "ro", "none"}])

\* the worker on a wiped disk, up to the end of the bootloader stage
NextGrub ==
    \/ NextPkgs
    \/ run_fstab
    \/ doFstab
    \/ run_configure
    \/ doConfigure_script
    \/ doConfigure_remove
    \/ run_grub
    \/ doGrub_install
    \/ doGrub_theme
    \/ doGrub_mkconfig
    \/ doGrub_return

SpecGrub == InitGrub /\ [][NextGrub]_vars

\* a disk whose first free region holds the 40 GB asked for, and whose
\* second is the larger one
TimeoutLayout ==
    <<Region(1100 * Frac, 42060 * Frac, 40960 * Frac),
      Region(50000 * Frac + 1, 150000 * Frac + 1, 100000 * Frac)>>

\* the discovery calls are exercised on a wiped disk and on free space, with
\* every choice of the tools that outlast their wait
InitTimeout ==
    InitFrom({InstallState([name |-> SDA], mode, EfiOf([name |-> SDA]), EmptyMap, 40, EmptyMap) :
                 mode \in {"wipe", "freespace"}},
             {TimeoutLayout},
             {[pacman_conf |-> <<"[core]", "#[multilib]", "#Include = /etc/pacman.d/mirrorlist">>,
               theme |-> FALSE, script |-> FALSE, fstab |-> <<>>,
               grub |-> GrubDefault, grub_access |-> "rw"]},
             SUBSET DiscoveryTools)

\* the worker on a wiped disk or on free space, up to the end of the fstab
\* stage
NextTimeout ==
    \/ NextPkgs
    \/ partitionFreeSpace_query
    \/ partitionFreeSpace_mkpart
    \/ partitionFreeSpace_probe
    \/ partitionFreeSpace_lsblk
    \/ run_fstab
    \/ doFstab

SpecTimeout == InitTimeout /\ [][NextTimeout]_vars

----------------------------------------------------------------------------
(* InstallScreen: the slots connected to the worker's signals.  The worker
   emits from its own thread, so every signal is queued to the GUI thread
   and handled there later, in emission order. *)

\* position in trace of the next signal the GUI thread has not handled yet
\* (tool invocations are not signals), 0 if there is none
NextSignal ==
    LET pending == {j \in (delivered + 1)..Len(trace) : trace[j].k # "cmd"}
    IN IF pending = {} THEN 0 ELSE CHOOSE j \in pending : \A i \in pending : j <= i

\* InstallScreen::start, the lambda connected to InstallWorker::progress
onProgress ==
    /\ NextSignal # 0
    /\ trace[NextSignal].k = "progress"
    /\ m_progress' = trace[NextSignal].pct
    /\ delivered' = NextSignal
    /\ UNCHANGED <<pc, err, trace, Env, Locals, m_failLbl, screen, Wizard>>

\* InstallScreen::start, the lambda connected to InstallWorker::logLine
onLogLine ==
    /\ NextSignal # 0
    /\ trace[NextSignal].k = "log"
    /\ delivered' = NextSignal
    /\ UNCHANGED <<pc, err, trace, Env, Locals, m_progress, m_failLbl, screen, Wizard>>

\* InstallScreen::start, the lambda connected to InstallWorker::succeeded;
\* emit finished() runs MainWindow's goTo(SCR_DONE) in the same call
onSucceeded ==
    /\ NextSignal # 0
    /\ trace[NextSignal].k = "succeeded"
    /\ m_progress' = 100
    /\ screen' = "SCR_DONE"
    /\ delivered' = NextSignal
    /\ UNCHANGED <<pc, err, trace, Env, Locals, m_failLbl, Wizard>>

\* a failed handler that also resets the progress bar
onFailed_resets_bar ==
    /\ NextSignal # 0
    /\ trace[NextSignal].k = "failed"
    /\ m_failLbl' = TRUE
    /\ m_progress' = 0
    /\ delivered' = NextSignal
    /\ UNCHANGED <<pc, err, trace, Env, Locals, screen, Wizard>>

\* a handler that reports the failure and moves on as after a success
onFailed_finishes ==
    /\ NextSignal # 0
    /\ trace[NextSignal].k = "failed"
    /\ m_failLbl' = TRUE
    /\ delivered' = NextSignal
    /\ screen' = "SCR_DONE"
    /\ UNCHANGED <<pc, err, trace, Env, Locals, m_progress, Wizard>>

\* a handler that reports the failure and returns to the System screen
onFailed_back_to_system ==
    /\ NextSignal # 0
    /\ trace[NextSignal].k = "failed"
    /\ m_failLbl' = TRUE
    /\ delivered' = NextSignal
    /\ screen' = "SCR_SYSTEM"
    /\ UNCHANGED <<pc, err, trace, Env, Locals, m_progress, Wizard>>

\* InstallScreen::start, the lambda connected to InstallWorker::failed
onFailed ==
    /\ NextSignal # 0
    /\ trace[NextSignal].k = "failed"
    /\ m_failLbl' = TRUE
    /\ delivered' = NextSignal
    /\ UNCHANGED <<pc, err, trace, Env, Locals, m_progress, screen, Wizard>>

\* the worker thread and the GUI thread side by side
NextUI ==
    \/ Next
    \/ onProgress
    \/ onLogLine
    \/ onSucceeded
    \/ onFailed

\* one configuration per mode for the runs watched through the GUI
UIConfigs ==
    LET sda == [name |-> SDA]
        gnome == [name |-> "GNOME", dm |-> "gdm", packages |-> <<"gnome", "gdm">>]
    IN { InstallState(sda, "wipe", EfiOf(sda), EmptyMap, 40, gnome),
         InstallState(sda, "freespace", EfiOf(sda), EmptyMap, 40, EmptyMap),
         InstallState(sda, "dualboot", EfiOf(sda), WinOf(sda, GiB(100)), 40, EmptyMap),
         InstallState(sda, "custom", EmptyMap, EmptyMap, 40, EmptyMap) }

InitUI ==
    InitWith(UIConfigs,
             {<<Region(50000 * Frac + 1, 150000 * Frac + 1, 100000 * Frac)>>},
             {[pacman_conf |-> <<"[core]", "#[multilib]", "#Include = /etc/pacman.d/mirrorlist">>,
               theme |-> TRUE, script |-> FALSE, fstab |-> <<>>,
                       grub |-> GrubDefault, grub_access |-> "rw"]})

SpecUI == InitUI /\ [][NextUI]_vars

\* the scheduler runs the worker thread until run() returns: every tool
\* the worker waits for terminates and the thread is never starved
SpecLive == InitUI /\ [][Next]_vars /\ WF_vars(Next)

----------------------------------------------------------------------------
(* The wizard: MainWindow and the screens in front of the Install screen *)

\* struct InstallState as default-constructed
DefaultState ==
    [InstallState(EmptyMap, "wipe", EmptyMap, EmptyMap, 40, EmptyMap)
        EXCEPT !.cpuPackages = <<>>, !.gpuPackages = <<>>,
               !.userPackages = <<>>, !.systemPackages = <<>>,
               !.hostname = <<>>, !.username = <<>>, !.password = <<>>]

SDB == <<"s","d","b">>

\* the first group of a GPT partition type GUID: EFI system partition
\* (as lsblk prints it, and in upper case), Microsoft basic data, Linux
EfiType == <<"c","1","2","a","7","3","2","8">>
EfiTypeUpper == <<"C","1","2","A","7","3","2","8">>
MsDataType == <<"e","b","d","0","a","0","a","2">>
LinuxType == <<"0","f","c","6","3","d","a","f">>

\* DiskScreen::loadDisks: the non-removable disks "lsblk -J" reported when
\* the Disk screen was built ...
m_disks ==
    << [name |-> SDA, size |-> "500G", model |-> "SSD"],
       [name |-> SDB, size |-> "1T", model |-> "HDD"],
       [name |-> NVME0N1, size |-> "250G", model |-> "NVMe"] >>

\* ... and the partitions of each of them
m_partitions ==
    << << [name |-> partName(SDA, 1), size |-> "512M", fstype |-> "vfat",
           mountpoint |-> "", parttype |-> EfiType],
          [name |-> partName(SDA, 2), size |-> "100G", fstype |-> "ntfs",
           mountpoint |-> "", parttype |-> MsDataType] >>,
       << [name |-> partName(SDB, 1), size |-> "200G", fstype |-> "ntfs",
           mountpoint |-> "", parttype |-> MsDataType],
          [name |-> partName(SDB, 2), size |-> "300M", fstype |-> "",
           mountpoint |-> "", parttype |-> EfiTypeUpper] >>,
       << [name |-> partName(NVME0N1, 1), size |-> "250G", fstype |-> "ext4",
           mountpoint |-> "", parttype |-> LinuxType] >> >>

\* one character folded to lower case (the letters of a GUID)
ToLower(c) ==
    CASE c = "A" -> "a" [] c = "B" -> "b" [] c = "C" -> "c"
      [] c = "D" -> "d" [] c = "E" -> "e" [] c = "F" -> "f" [] OTHER -> c

\* QString::contains(needle, Qt::CaseInsensitive)
ContainsCI(s, needle) ==
    Contains([i \in 1..Len(s) |-> ToLower(s[i])],
             [i \in 1..Len(needle) |-> ToLower(needle[i])])

RECURSIVE FindEfi(_)
\* DiskScreen::onConfirm: the first partition whose type GUID contains
\* "c12a7328" or whose filesystem is vfat; an empty map if there is none
FindEfi(parts) ==
    IF parts = <<>> THEN EmptyMap
    ELSE IF ContainsCI(Head(parts).parttype, EfiType) \/ Head(parts).fstype = "vfat"
    THEN Head(parts)
    ELSE FindEfi(Tail(parts))

\* values the size slider (range 10..500, initially 40) is moved to
SliderValues == {10, 40, 500}

\* the install modes of the three radio buttons
modeIds == <<"wipe", "freespace", "dualboot">>

Worker == <<m_state, pc, err, trace, disk_free, slow, files, Locals>>
Screen == <<delivered, m_progress, m_failLbl>>

\* MainWindow::goTo
goTo(index) == screen' = index

\* the "continue" button of the UEFI block screen
UEFIBlockScreen_proceed ==
    /\ screen = "SCR_UEFI"
    /\ goTo("SCR_WELCOME")
    /\ UNCHANGED <<Worker, Screen, Wizard>>

\* the "Get Started" button of the Welcome screen
WelcomeScreen_proceed ==
    /\ screen = "SCR_WELCOME"
    /\ goTo("SCR_LOCALE")
    /\ UNCHANGED <<Worker, Screen, Wizard>>

\* LocaleScreen::confirmed: to the Disk screen when NetCheckWorker has
\* reported internet access by now, else to the Wi-Fi screen
LocaleScreen_confirmed ==
    /\ screen = "SCR_LOCALE"
    /\ \E m_alreadyOnline \in BOOLEAN :
         IF m_alreadyOnline THEN goTo("SCR_DISK") ELSE goTo("SCR_WIFI")
    /\ UNCHANGED <<Worker, Screen, Wizard>>

LocaleScreen_back ==
    /\ screen = "SCR_LOCALE"
    /\ goTo("SCR_WELCOME")
    /\ UNCHANGED <<Worker, Screen, Wizard>>

\* WifiScreen::connected, emitted after a connection and by the skip button
WifiScreen_connected ==
    /\ screen = "SCR_WIFI"
    /\ goTo("SCR_DISK")
    /\ UNCHANGED <<Worker, Screen, Wizard>>

\* DiskScreen::onDiskSelected
DiskScreen_onDiskSelected ==
    /\ screen = "SCR_DISK"
    /\ \E row \in -1..Len(m_disks) :
         IF row < 0 \/ row >= Len(m_disks)
         THEN UNCHANGED m_disk
         ELSE m_disk' = [m_disk EXCEPT !.m_selectedDisk = row]
    /\ UNCHANGED <<Worker, Screen, screen, wiz, m_user, confirmed>>

\* DiskScreen: a radio button of the mode group was checked
DiskScreen_modeToggled ==
    /\ screen = "SCR_DISK"
    /\ \E id \in 1..Len(modeIds) : m_disk' = [m_disk EXCEPT !.m_mode = modeIds[id]]
    /\ UNCHANGED <<Worker, Screen, screen, wiz, m_user, confirmed>>

\* DiskScreen: the size slider was moved (it is shown for freespace and dualboot)
DiskScreen_sizeChanged ==
    /\ screen = "SCR_DISK"
    /\ m_disk.m_mode \in {"dualboot", "freespace"}
    /\ \E v \in SliderValues : m_disk' = [m_disk EXCEPT !.m_archSizeGb = v]
    /\ UNCHANGED <<Worker, Screen, screen, wiz, m_user, confirmed>>

\* DiskScreen::onConfirm and the MainWindow lambda connected to
\* DiskScreen::confirmed
DiskScreen_onConfirm ==
    /\ screen = "SCR_DISK"
    /\ m_disk.m_selectedDisk >= 0
    /\ wiz' = [wiz EXCEPT !.disk = m_disks[m_disk.m_selectedDisk + 1],
                          !.efiPartition = FindEfi(m_partitions[m_disk.m_selectedDisk + 1]),
                          !.archSizeGb = m_disk.m_archSizeGb,
                          !.installMode = m_disk.m_mode]
    /\ goTo("SCR_USER")
    /\ confirmed' = confirmed \cup {"SCR_DISK"}
    /\ UNCHANGED <<Worker, Screen, m_disk, m_user>>

DiskScreen_back ==
    /\ screen = "SCR_DISK"
    /\ goTo("SCR_WIFI")
    /\ UNCHANGED <<Worker, Screen, Wizard>>

\* the characters UserScreen::validate tells apart
LowerChars == {"a","b","c","d","e","f","g","h","i","j","k","l","m",
               "n","o","p","q","r","s","t","u","v","w","x","y","z"}
UpperChars == {"A","B","C","D","E","F","G","H","I","J","K","L","M",
               "N","O","P","Q","R","S","T","U","V","W","X","Y","Z"}
DigitChars == Elems(Digits)

RECURSIVE trimmedText(_)
\* QString::trimmed() of a text given character by character
trimmedText(t) ==
    IF t = <<>> THEN <<>>
    ELSE IF Head(t) = " " THEN trimmedText(Tail(t))
    ELSE IF t[Len(t)] = " " THEN trimmedText(SubSeq(t, 1, Len(t) - 1))
    ELSE t

\* a validation that finds nothing wrong
validate_accepts(u) == [u EXCEPT !.enabled = TRUE]

\* UserScreen::validate: m_confirmBtn is enabled exactly if no complaint
\* was collected
validate(u) ==
    LET h == trimmedText(u.hostname)
        n == trimmedText(u.username)
        hostErr == \/ h = <<>>
                   \/ \E c \in Elems(h) : c \notin LowerChars \cup UpperChars \cup DigitChars \cup {"-"}
        userErr == \/ n = <<>>
                   \/ \E c \in Elems(n) : c \notin LowerChars \cup DigitChars \cup {"_", "-"}
        passErr == \/ Len(u.password) < 6
                   \/ u.password # u.confirm
    IN [u EXCEPT !.enabled = ~(hostErr \/ userErr \/ passErr)]

\* what the user may type into the fields of the User screen
UserTexts ==
    [hostname |-> {<<>>, <<" ","p","c","-","1"," ">>, <<"m","y"," ","p","c">>},
     username |-> {<<>>, <<"b","o","b">>, <<"B","o","b">>},
     password |-> {<<>>, <<"s","e","c","r","e","t">>},
     confirm  |-> {<<>>, <<"s","e","c","r","e","t">>}]

\* QLineEdit::textChanged of one of the four fields, connected to validate
UserScreen_textChanged ==
    /\ screen = "SCR_USER"
    /\ \E field \in DOMAIN UserTexts :
         \E text \in UserTexts[field] \ {m_user[field]} :
             m_user' = validate([m_user EXCEPT ![field] = text])
    /\ UNCHANGED <<Worker, Screen, screen, wiz, m_disk, confirmed>>

\* UserScreen::onConfirm (m_confirmBtn can be clicked when it is enabled)
\* and the MainWindow lambda connected to UserScreen::confirmed
UserScreen_confirmed ==
    /\ screen = "SCR_USER"
    /\ m_user.enabled
    /\ wiz' = [wiz EXCEPT !.hostname = trimmedText(m_user.hostname),
                          !.username = trimmedText(m_user.username),
                          !.password = m_user.password]
    /\ goTo("SCR_DE")
    /\ confirmed' = confirmed \cup {"SCR_USER"}
    /\ UNCHANGED <<Worker, Screen, m_disk, m_user>>

UserScreen_back ==
    /\ screen = "SCR_USER"
    /\ goTo("SCR_DISK")
    /\ UNCHANGED <<Worker, Screen, Wizard>>

\* DEScreen::onConfirm and the MainWindow lambda connected to DEScreen::confirmed
DEScreen_onConfirm ==
    /\ screen = "SCR_DE"
    /\ \E de \in DEs \ {EmptyMap} : wiz' = [wiz EXCEPT !.de = de]
    /\ goTo("SCR_HARDWARE")
    /\ confirmed' = confirmed \cup {"SCR_DE"}
    /\ UNCHANGED <<Worker, Screen, m_disk, m_user>>

DEScreen_back ==
    /\ screen = "SCR_DE"
    /\ goTo("SCR_USER")
    /\ UNCHANGED <<Worker, Screen, Wizard>>

\* HardwareScreen::confirmed
HardwareScreen_confirmed ==
    /\ screen = "SCR_HARDWARE"
    /\ \E cpu \in {<<>>, <<"intel-ucode">>} :
         wiz' = [wiz EXCEPT !.cpuPackages = cpu, !.gpuPackages = <<"mesa">>]
    /\ goTo("SCR_PACKAGES")
    /\ confirmed' = confirmed \cup {"SCR_HARDWARE"}
    /\ UNCHANGED <<Worker, Screen, m_disk, m_user>>

HardwareScreen_back ==
    /\ screen = "SCR_HARDWARE"
    /\ goTo("SCR_DE")
    /\ UNCHANGED <<Worker, Screen, Wizard>>

\* PackagesScreen::confirmed
PackagesScreen_confirmed ==
    /\ screen = "SCR_PACKAGES"
    /\ \E pkgs \in {<<>>, <<"htop", "git">>} : wiz' = [wiz EXCEPT !.userPackages = pkgs]
    /\ goTo("SCR_SYSTEM")
    /\ confirmed' = confirmed \cup {"SCR_PACKAGES"}
    /\ UNCHANGED <<Worker, Screen, m_disk, m_user>>

PackagesScreen_back ==
    /\ screen = "SCR_PACKAGES"
    /\ goTo("SCR_HARDWARE")
    /\ UNCHANGED <<Worker, Screen, Wizard>>

\* SystemScreen::onConfirm and the MainWindow lambda connected to
\* SystemScreen::confirmed: goTo(SCR_INSTALL); m_install->start(m_state).
\* InstallScreen::start resets the bar and the failure label and starts a
\* worker that holds a copy of the configuration.
SystemScreen_onConfirm ==
    /\ screen = "SCR_SYSTEM"
    /\ wiz' = [wiz EXCEPT !.systemPackages = <<"pipewire", "gdm">>]
    /\ goTo("SCR_INSTALL")
    /\ m_progress' = 0
    /\ m_failLbl' = FALSE
    /\ m_state' = wiz'
    /\ pc' = "run"
    /\ confirmed' = confirmed \cup {"SCR_SYSTEM"}
    /\ UNCHANGED <<err, trace, disk_free, slow, files, Locals, delivered, m_disk, m_user>>

SystemScreen_back ==
    /\ screen = "SCR_SYSTEM"
    /\ goTo("SCR_PACKAGES")
    /\ UNCHANGED <<Worker, Screen, Wizard>>

\* one action of the user on the screen that is shown
NextWizard ==
    \/ UEFIBlockScreen_proceed
    \/ WelcomeScreen_proceed
    \/ LocaleScreen_confirmed
    \/ LocaleScreen_back
    \/ WifiScreen_connected
    \/ DiskScreen_onDiskSelected
    \/ DiskScreen_modeToggled
    \/ DiskScreen_sizeChanged
    \/ DiskScreen_onConfirm
    \/ DiskScreen_back
    \/ UserScreen_textChanged
    \/ UserScreen_confirmed
    \/ UserScreen_back
    \/ DEScreen_onConfirm
    \/ DEScreen_back
    \/ HardwareScreen_confirmed
    \/ HardwareScreen_back
    \/ PackagesScreen_confirmed
    \/ PackagesScreen_back
    \/ SystemScreen_onConfirm
    \/ SystemScreen_back

\* state after MainWindow's constructor: the UEFI block screen or the
\* Welcome screen is shown, nothing is selected on the Disk screen, the
\* configuration is default-constructed and no worker exists yet (m_state
\* stands at the default until InstallScreen::start creates the worker)
InitWizard ==
    /\ screen \in {"SCR_UEFI", "SCR_WELCOME"}
    /\ wiz = DefaultState
    /\ m_disk = [m_selectedDisk |-> -1, m_archSizeGb |-> 40, m_mode |-> "wipe"]
    /\ m_user = [hostname |-> <<>>, username |-> <<>>, password |-> <<>>, confirm |-> <<>>,
                 enabled |-> FALSE]
    /\ confirmed = {}
    /\ m_state = DefaultState
    /\ pc = "idle"
    /\ err = NoErr
    /\ trace = <<>>
    /\ efi = <<>>
    /\ root = <<>>
    /\ disk_free = <<>>
    /\ slow = {}
    /\ files = [pacman_conf |-> Unreadable, theme |-> FALSE, script |-> FALSE, fstab |-> <<>>,
                       grub |-> GrubDefault, grub_access |-> "rw"]
    /\ freeRegions = <<>>
    /\ best = NoRegion
    /\ delivered = 0
    /\ m_progress = 0
    /\ m_failLbl = FALSE

SpecWizard == InitWizard /\ [][NextWizard]_vars

----------------------------------------------------------------------------
(* Reading the trace *)

Idx == 1..Len(trace)
CmdIdx == {i \in Idx : trace[i].k = "cmd"}
ProgIdx == {i \in Idx : trace[i].k = "progress"}
TermIdx == {i \in Idx : trace[i].k \in {"failed", "succeeded"}}

\* positions of the invocations of prog
Invoked(prog) == {i \in CmdIdx : trace[i].prog = prog}

\* positions of the arch-chroot invocations of the tool named tool
Chrooted(tool) == {i \in Invoked("arch-chroot") : trace[i].args[2] = tool}

IsProgress(e) == e.k = "progress"

RECURSIVE PctsOf(_)
PctsOf(q) == IF q = <<>> THEN <<>> ELSE <<Head(q).pct>> \o PctsOf(Tail(q))

\* the percentages of the progress events, in emission order
ProgressPcts == PctsOf(SelectSeq(trace, IsProgress))

IsPrefix(p, q) == Len(p) <= Len(q) /\ \A i \in 1..Len(p) : p[i] = q[i]

NonDecreasing(q) == \A i \in 1..(Len(q) - 1) : q[i] <= q[i + 1]

\* the last progress percentage emitted before position i (0 when none)
PctBefore(i) ==
    LET before == {j \in ProgIdx : j < i}
    IN IF before = {} THEN 0
       ELSE trace[CHOOSE j \in before : \A h \in before : h <= j].pct

\* the stage percentage a tool invocation belongs to, read off the tool
StagePctOf(e) ==
    IF e.prog \in {"wipefs", "sgdisk", "partprobe", "parted", "ntfsresize", "lsblk"} THEN 5
    ELSE IF e.prog \in {"mkfs.ext4", "mkfs.fat"} THEN 15
    ELSE IF e.prog = "mount" THEN 20
    ELSE IF e.prog \in {"pacman", "pacstrap"} THEN 25
    ELSE IF e.prog = "genfstab" THEN 60
    ELSE IF e.prog \in {"sync", "umount"} THEN 97
    ELSE IF e.args[2] = "/root/arch_setup.sh" THEN 65
    ELSE IF e.args[2] \in {"grub-install", "os-prober", "grub-mkconfig"} THEN 85
    ELSE 88

\* the number a text of decimal digits denotes
RECURSIVE ParseNum(_)
ParseNum(s) ==
    IF s = <<>> THEN 0
    ELSE 10 * ParseNum(SubSeq(s, 1, Len(s) - 1))
         + (CHOOSE d \in 0..9 : Digits[d + 1] = s[Len(s)])

\* the number in an offset argument such as "51200MB"
ParseMB(s) == ParseNum(SubSeq(s, 1, Len(s) - 2))

Raised == err.kind # "none"

----------------------------------------------------------------------------
(* Claims *)

FailedIdx == {i \in Idx : trace[i].k = "failed"}
SucceededIdx == {i \in Idx : trace[i].k = "succeeded"}

\* C1: once a stage has raised an error, the worker invokes no further
\* external command and emits no further progress event, the error stays
\* the one that was raised first, and the run ends with exactly one failed
\* event, which carries that error's message, and without succeeded.
C1_AbortOnFirstError ==
    /\ [][Raised =>
            /\ err' = err
            /\ Len(trace') >= Len(trace)
            /\ \A i \in (Len(trace) + 1)..Len(trace') :
                   trace'[i].k \notin {"cmd", "progress"}]_vars
    /\ [](Raised => pc \in {"catch", "done"})
    /\ [](pc = "done" /\ Raised =>
            /\ Cardinality(FailedIdx) = 1
            /\ \A i \in FailedIdx : trace[i].msg = err
            /\ SucceededIdx = {})

\* a run that failed in the middle of the pipeline: pacstrap exited badly
\* after the partitions were created, formatted and mounted
C1_Witness ==
    /\ pc = "done"
    /\ err.kind = "CommandFailed"
    /\ err.cmd.prog = "pacstrap"
    /\ FailedIdx # {}

\* the stage percentages in pipeline order, with and without the desktop stage
StagePcts(withDesktop) ==
    <<5, 15, 20, 25, 60, 65, 85>> \o (IF withDesktop THEN <<88>> ELSE <<>>) \o <<97>>

\* C2: the stages are entered in the order partition, format, mount,
\* bootstrap, fstab, configure, bootloader, (desktop when selected),
\* cleanup, each at most once; a stage is entered only while no error has
\* been raised; every external command is invoked after the progress event
\* of its own stage and before that of any later stage.
C2_StageOrder ==
    /\ [](IsPrefix(ProgressPcts, StagePcts(deSelected) \o <<100>>))
    /\ [](\A i \in CmdIdx : PctBefore(i) = StagePctOf(trace[i]))
    /\ [][Len(ProgressPcts') > Len(ProgressPcts) => ~Raised /\ ~Raised']_vars

\* a successful run with the desktop stage: all nine stages were entered
C2_Witness ==
    /\ pc = "done"
    /\ ~Raised
    /\ Chrooted("pacman") # {}
    /\ Invoked("umount") # {}
    /\ Len(ProgressPcts) = 10

\* C3: every run reaches its end, and at every moment the trace holds at
\* most one terminal event (succeeded or failed); at the end it holds
\* exactly one, and nothing (no progress event, no log line) was emitted
\* after a terminal event.
C3_OneTerminalEvent ==
    /\ <>(pc = "done")
    /\ [](Cardinality(TermIdx) <= 1)
    /\ [](\A i \in TermIdx : i = Len(trace))
    /\ [](pc = "done" => Cardinality(TermIdx) = 1)

\* both kinds of run end: this one succeeded although sync exited badly
C3_Witness ==
    /\ pc = "done"
    /\ SucceededIdx # {}
    /\ \E i \in Invoked("sync") : trace[i + 1].k = "log" /\ trace[i + 1].tag = "out"

\* C4: the percentages of the emitted progress events never decrease, and
\* the value of the progress bar never decreases once the run was started.
C4_ProgressMonotone ==
    /\ [](NonDecreasing(ProgressPcts))
    /\ [][m_progress' >= m_progress]_vars

\* a failing run whose failure the screen has shown, the bar standing at 25
C4_Witness ==
    /\ m_failLbl
    /\ m_progress = 25
    /\ Len(ProgressPcts) = 4

\* C5: a run that succeeded has emitted exactly the progress events 5, 15,
\* 20, 25, 60, 65, 85, (88 if and only if the desktop stage ran), 97, 100 in
\* this order; the 100 event comes after the cleanup's unmount and only
\* its own log line separates it from succeeded.
C5_ProgressSequence ==
    /\ SucceededIdx # {} =>
          /\ ProgressPcts = StagePcts(Chrooted("pacman") # {}) \o <<100>>
          /\ Len(trace) >= 3
          /\ trace[Len(trace) - 2] = ProgE(100)
          /\ trace[Len(trace) - 1].k = "log"
    /\ \A i \in ProgIdx : trace[i].pct = 100 =>
          /\ \E j \in Invoked("umount") : j < i
          /\ \A j \in CmdIdx : j < i

\* a successful run without desktop stage
C5_Witness ==
    /\ pc = "done"
    /\ SucceededIdx # {}
    /\ 88 \notin {ProgressPcts[i] : i \in 1..Len(ProgressPcts)}

MkfsIdx == Invoked("mkfs.ext4") \cup Invoked("mkfs.fat")

\* the parted invocations with the given sub-command
Parted(sub) == {i \in Invoked("parted") : trace[i].args[3] = sub}

\* C6 (in the case the claim singles out): a run that got past the mount
\* stage has, when it ends, attempted the cleanup: sync and the recursive
\* unmount of /mnt were invoked, whatever the outcome of the run.
C6_CleanupAlways ==
    pc = "done" /\ Invoked("pacstrap") # {} =>
        Invoked("sync") # {} /\ Invoked("umount") # {}

\* C7: the format stage formats the root device as ext4; mkfs.fat runs
\* only in wipe mode; in freespace and dualboot mode no formatting command
\* is ever invoked on the EFI partition of the configuration.
C7_EfiNeverReformatted ==
    /\ \A i \in Invoked("mkfs.ext4") : trace[i].args = <<"-F", root>>
    /\ Invoked("mkfs.fat") # {} => m_state.installMode = "wipe"
    /\ m_state.installMode = "wipe" /\ 20 \in {ProgressPcts[i] : i \in 1..Len(ProgressPcts)}
          => \E i \in Invoked("mkfs.fat") : trace[i].args = <<"-F32", efi>>
    /\ m_state.installMode \in {"freespace", "dualboot"} =>
          \A i \in MkfsIdx :
              trace[i].args[2] # DEV \o MapStr(m_state.efiPartition, "name")

\* the other-OS partition's size in KiB and the requested size in GB
winKiB == m_state.windowsPartition.size
reqGb == m_state.archSizeGb

\* C8: in dual-boot mode with both descriptors present, the partition
\* stage fails with ShrinkTooSmall exactly when the other OS would keep
\* less than 20 GB (current size minus requested size), and when it fails
\* so no external command has been invoked.
C8_ShrinkFloor ==
    /\ m_state.installMode = "dualboot"
    /\ ~isEmpty(m_state.efiPartition)
    /\ ~isEmpty(m_state.windowsPartition)
    /\ pc \notin {"run", "doPartition", "partitionDualBoot"}
    => /\ (err.kind = "ShrinkTooSmall") <=> (winKiB - reqGb * 1024 * 1024 < 20 * 1024 * 1024)
       /\ err.kind = "ShrinkTooSmall" => CmdIdx = {}

\* 100 GB with 85 GB requested was refused
C8_Witness ==
    /\ pc = "done"
    /\ err.kind = "ShrinkTooSmall"
    /\ winKiB = 100 * 1024 * 1024
    /\ reqGb = 85
    /\ FailedIdx # {}

\* C9: in dual-boot mode the start given to mkpart is the end given to the
\* preceding resizepart of the other OS, namely the shrink boundary in MB,
\* and the end given to mkpart lies the requested size in MB behind it.
C9_ShrinkBoundary ==
    m_state.installMode = "dualboot" =>
        \A i \in Parted("mkpart") :
            /\ \E j \in Parted("resizepart") : j < i /\ trace[j].args[5] = trace[i].args[6]
            /\ ParseMB(trace[i].args[6]) = (winKiB - reqGb * 1024 * 1024) \div 1024
            /\ ParseMB(trace[i].args[7]) - ParseMB(trace[i].args[6]) = reqGb * 1024

\* a dual-boot partition stage that returned, the other OS keeping a
\* size that is not a whole number of MB
C9_Witness ==
    /\ pc = "run_format"
    /\ m_state.installMode = "dualboot"
    /\ winKiB % 1024 # 0
    /\ Parted("mkpart") # {}

\* C10: in free-space mode, once the free-region query has returned
\* successfully: no region at all fails with NoFreeSpace, regions none of
\* which holds the requested size fail with InsufficientFreeSpace, in both
\* cases without any mkpart; otherwise the partition is created at the
\* start of a region of maximal size among the sufficient ones.
C10_FreeSpaceSelection ==
    /\ m_state.installMode = "freespace"
    /\ ~isEmpty(m_state.efiPartition)
    /\ pc \notin {"run", "doPartition", "partitionFreeSpace"}
    /\ err.kind # "InspectionFailed"
    => LET need == reqGb * 1024 * Frac
           fit == {r \in Elems(disk_free) : r.sizeMb >= need}
       IN /\ (err.kind = "NoFreeSpace") <=> (disk_free = <<>>)
          /\ (err.kind = "InsufficientFreeSpace") <=> (disk_free # <<>> /\ fit = {})
          /\ err.kind \in {"NoFreeSpace", "InsufficientFreeSpace"} => Parted("mkpart") = {}
          /\ \A i \in Parted("mkpart") :
                \E r \in fit :
                    /\ \A q \in fit : q.sizeMb <= r.sizeMb
                    /\ ParseMB(trace[i].args[6]) = r.startMb \div Frac

\* regions of 1000 MB and 100 MB with 40 GB requested: refused
C10_Witness ==
    /\ pc = "done"
    /\ err.kind = "InsufficientFreeSpace"
    /\ reqGb = 40
    /\ Len(disk_free) = 2
    /\ disk_free[1].sizeMb = 1000 * Frac
    /\ disk_free[2].sizeMb = 100 * Frac


\* C11: in free-space mode every partition-creating command is given
\* boundaries whose difference is exactly the requested size in MB
\* (requested GB times 1024), wherever the selected region starts.
C11_ExactSize ==
    m_state.installMode = "freespace" =>
        \A i \in Parted("mkpart") :
            ParseMB(trace[i].args[7]) - ParseMB(trace[i].args[6]) = reqGb * 1024

\* a partition was created in a region that is larger than requested and
\* starts at a fractional MB offset
C11_Witness ==
    /\ m_state.installMode = "freespace"
    /\ Parted("mkpart") # {}
    /\ \E r \in Elems(disk_free) :
          /\ r.startMb % Frac # 0
          /\ r.sizeMb > reqGb * 1024 * Frac
          /\ \A i \in Parted("mkpart") : ParseMB(trace[i].args[6]) = r.startMb \div Frac


\* C12: whenever the partition stage has returned, in any of the three
\* modes, the EFI device path and the root device path differ and both
\* start with the device path of the target disk.
C12_DistinctDevices ==
    pc = "run_format" =>
        /\ efi # root
        /\ StartsWith(efi, disk)
        /\ StartsWith(root, disk)


\* the partition stage has got past the descriptor checks of its mode
PastDescriptorChecks ==
    pc \notin {"run", "doPartition", "partitionFreeSpace", "partitionDualBoot"}

\* C13: free-space mode without EFI descriptor fails with
\* MissingEFIPartition; dual-boot mode without EFI descriptor fails with
\* MissingEFIPartition, and with an EFI descriptor but without other-OS
\* descriptor with MissingOtherOSPartition; these errors are raised in
\* exactly these cases and before any external command was invoked.
C13_MissingDescriptors ==
    /\ PastDescriptorChecks /\ m_state.installMode = "freespace" =>
          (err.kind = "MissingEFIPartition") <=> (DOMAIN m_state.efiPartition = {})
    /\ PastDescriptorChecks /\ m_state.installMode = "dualboot" =>
          /\ (err.kind = "MissingEFIPartition") <=> (DOMAIN m_state.efiPartition = {})
          /\ (err.kind = "MissingOtherOSPartition") <=>
                (DOMAIN m_state.efiPartition # {} /\ DOMAIN m_state.windowsPartition = {})
    /\ err.kind \in {"MissingEFIPartition", "MissingOtherOSPartition"} =>
          /\ CmdIdx = {}
          /\ m_state.installMode \in {"freespace", "dualboot"}
          /\ err.kind = "MissingEFIPartition" => err.mode = m_state.installMode

\* a dual-boot run in which both descriptors were missing has ended
C13_Witness ==
    /\ pc = "done"
    /\ m_state.installMode = "dualboot"
    /\ DOMAIN m_state.efiPartition = {}
    /\ DOMAIN m_state.windowsPartition = {}
    /\ \E i \in FailedIdx : trace[i].msg.kind = "MissingEFIPartition"


\* C14: with a mode other than wipe, freespace and dualboot the partition
\* stage raises UnsupportedMode (naming the mode) and no external command
\* is ever invoked; the run ends with the failed event carrying that
\* error, and the only progress event of the run is 5.  UnsupportedMode
\* is raised for no recognised mode.
C14_UnsupportedMode ==
    /\ m_state.installMode \notin {"wipe", "freespace", "dualboot"} =>
          /\ CmdIdx = {}
          /\ pc \notin {"run", "doPartition"} =>
                err = [kind |-> "UnsupportedMode", mode |-> m_state.installMode]
          /\ pc = "done" =>
                /\ ProgressPcts = <<5>>
                /\ trace[Len(trace)] = FailedE(err)
                /\ Cardinality(TermIdx) = 1
    /\ err.kind = "UnsupportedMode" =>
          m_state.installMode \notin {"wipe", "freespace", "dualboot"}

\* a run with a mode that differs from a recognised one only in case
C14_Witness ==
    /\ pc = "done"
    /\ m_state.installMode = "WIPE"
    /\ FailedIdx # {}


\* the worker was started: InstallScreen::start has been called
Started == pc # "idle"

\* C15: the configuration the pipeline is started with has a non-empty EFI
\* descriptor when its mode is freespace, and a non-empty EFI descriptor
\* and a non-empty other-OS descriptor when its mode is dualboot.
C15_ConfigInvariant ==
    Started =>
        /\ m_state.installMode = "freespace" => DOMAIN m_state.efiPartition # {}
        /\ m_state.installMode = "dualboot" =>
              DOMAIN m_state.efiPartition # {} /\ DOMAIN m_state.windowsPartition # {}


\* the calls of _run among the entries a step appends to the trace
NewRuns == {i \in (Len(trace) + 1)..Len(trace') :
               trace'[i].k = "cmd" /\ "check" \in DOMAIN trace'[i]}

\* C16: a command run through _run with check = true that exits abnormally
\* or with a nonzero code raises CommandFailed carrying that exit code,
\* the command line invoked, and the trailing part of the output, 700
\* characters at most; with check = false, and on a normal exit with
\* code 0, _run raises nothing and returns to its caller.
C16_CommandFailed ==
    [][\A i \in NewRuns :
          LET e == trace'[i]
              bad == e.res.status # "NormalExit" \/ e.res.code # 0
          IN IF e.check /\ bad
             THEN /\ pc' = "catch"
                  /\ err'.kind = "CommandFailed"
                  /\ err'.code = e.res.code
                  /\ err'.cmd.prog = e.prog /\ err'.cmd.args = e.args
                  /\ err'.tail.last = e.res.chars
                  /\ err'.tail.last - err'.tail.first + 1 <= 700
                  /\ err'.tail.first = 1 \/ err'.tail.last - err'.tail.first + 1 = 700
             ELSE /\ pc' # "catch"
                  /\ err' = err]_vars

\* in one run os-prober, run with check = false, crashed, and grub-mkconfig,
\* run with check = true, then exited with 1 after printing 701 characters
C16_Witness ==
    /\ pc = "done"
    /\ err.kind = "CommandFailed"
    /\ err.code = 1
    /\ err.cmd.prog = "arch-chroot"
    /\ err.cmd.args[2] = "grub-mkconfig"
    /\ err.tail = [first |-> 2, last |-> 701]
    /\ \E i \in Chrooted("os-prober") : trace[i].res.status = "CrashExit"


\* the calls of _run recorded in the trace, and those that ended badly
RunIdx == {i \in CmdIdx : "check" \in DOMAIN trace[i]}
BadRunIdx == {i \in RunIdx : trace[i].res.status # "NormalExit" \/ trace[i].res.code # 0}

\* the best-effort steps: the cleanup's sync and recursive unmount, the
\* display-manager enable and the os-prober scan
BestEffort(e) ==
    \/ e.prog = "sync"
    \/ e.prog = "umount" /\ e.args = <<"-R", "/mnt">>
    \/ e.prog = "arch-chroot" /\ e.args[2] = "os-prober"
    \/ e.prog = "arch-chroot" /\ e.args[2] = "systemctl" /\ e.args[3] = "enable"

\* where the worker stands after a best-effort step has returned
AfterBestEffort(e) ==
    IF e.prog = "sync" THEN "cleanup_umount"
    ELSE IF e.prog = "umount" THEN "run_done"
    ELSE IF e.args[2] = "os-prober" THEN "grub_mkconfig"
    ELSE "run_cleanup"

\* C17: a best-effort step that exits badly raises nothing, and the worker
\* goes on with the step that follows it; no failed event ever reports a
\* best-effort command; and a run in which no other step failed than
\* best-effort commands ends with progress 100 followed by succeeded.
C17_BestEffort ==
    /\ [][\A i \in NewRuns :
            BestEffort(trace'[i]) =>
                /\ err' = err
                /\ pc' = AfterBestEffort(trace'[i])]_vars
    /\ [](\A i \in FailedIdx :
            trace[i].msg.kind = "CommandFailed" => ~BestEffort(trace[i].msg.cmd))
    /\ []((pc = "done" /\ err.kind \in {"none", "CommandFailed"}
                        /\ \A i \in BadRunIdx : BestEffort(trace[i]))
           => (/\ trace[Len(trace)] = SuccE
               /\ ProgressPcts[Len(ProgressPcts)] = 100
               /\ FailedIdx = {}))

\* a dual-boot run with a display manager in which all four best-effort
\* steps exited badly, and which succeeded
C17_Witness ==
    /\ pc = "done"
    /\ SucceededIdx # {}
    /\ \E i \in BadRunIdx : trace[i].prog = "sync"
    /\ \E i \in BadRunIdx : trace[i].prog = "umount"
    /\ \E i \in BadRunIdx : trace[i].prog = "arch-chroot" /\ trace[i].args[2] = "os-prober"
    /\ \E i \in BadRunIdx : trace[i].prog = "arch-chroot" /\ trace[i].args[2] = "systemctl"


\* C18: a bad exit of the package-database refresh (pacman -Sy) that
\* enableMultilib triggers is swallowed: no error is raised for it, the
\* run does not end in failed because of it, and the run does not end
\* without pacstrap having been invoked.
C18_MultilibBestEffort ==
    (\E i \in BadRunIdx : trace[i].prog = "pacman") =>
        /\ ~(err.kind = "CommandFailed" /\ err.cmd.prog = "pacman")
        /\ \A i \in FailedIdx :
               trace[i].msg.kind = "CommandFailed" => trace[i].msg.cmd.prog # "pacman"
        /\ pc = "done" => Invoked("pacstrap") # {}


\* C19: the setup script is run at most once, and only while its file
\* exists; the file exists only inside the configure stage, between the
\* write and the removal that follows the chroot run: once the stage has
\* ended, with or without error, the file is gone.
C19_ScriptRemoved ==
    /\ Cardinality(Chrooted("/root/arch_setup.sh")) <= 1
    /\ files.script => Chrooted("/root/arch_setup.sh") # {}
    /\ files.script => pc = "configure_remove"


\* the configured desktop descriptor is non-empty and lists packages
DesktopConfigured ==
    /\ DOMAIN m_state.de # {}
    /\ "packages" \in DOMAIN m_state.de
    /\ Len(m_state.de.packages) > 0

\* the desktop commands: the package install inside the new root and the
\* display-manager enable
DesktopCmdIdx == Chrooted("pacman") \cup Chrooted("systemctl")

Has(pct) == \E i \in ProgIdx : trace[i].pct = pct

\* C20: the progress event 88 and the desktop commands occur only in runs
\* whose desktop descriptor is non-empty with a non-empty package list;
\* in such a run the cleanup is not entered before 88 was emitted and the
\* desktop packages were installed; in every other run 85 is directly
\* followed by 97.
C20_DesktopStage ==
    /\ Has(88) \/ DesktopCmdIdx # {} => DesktopConfigured
    /\ Has(97) /\ DesktopConfigured =>
          \E i \in ProgIdx, j \in Chrooted("pacman"), h \in ProgIdx :
              /\ trace[i].pct = 88 /\ trace[h].pct = 97
              /\ i < j /\ j < h
              /\ trace[j].args = <<"/mnt", "pacman", "-S", "--noconfirm">> \o m_state.de.packages
    /\ Has(97) /\ ~DesktopConfigured =>
          \E n \in 1..(Len(ProgressPcts) - 1) :
              ProgressPcts[n] = 85 /\ ProgressPcts[n + 1] = 97

\* a run with a desktop descriptor whose package list is empty reached
\* the cleanup
C20_Witness ==
    /\ DOMAIN m_state.de # {}
    /\ m_state.de.packages = <<>>
    /\ Has(97)
    /\ Invoked("umount") # {}


\* C21: once genfstab has been run, the fstab stage has failed with
\* FstabGenerationFailed if it exited nonzero, else with FstabEmpty if its
\* output was blank, else with FstabWriteFailed if /mnt/etc/fstab could
\* not be opened for writing; in the first two cases the file was not
\* opened, in all three it is as it was; otherwise nothing was raised
\* and the file holds the table followed by a newline.
C21_FstabErrors ==
    \A i \in Invoked("genfstab") :
        LET e == trace[i]
            blank == \A n \in 1..Len(e.output) : e.output[n] \in {"", " "}
            table == SelectSeq(e.output, LAMBDA l : l \notin {"", " "})
        IN /\ e.exit # 0 =>
                 err.kind = "FstabGenerationFailed" /\ e.opened = "no" /\ files.fstab = <<>>
           /\ e.exit = 0 /\ blank =>
                 err.kind = "FstabEmpty" /\ e.opened = "no" /\ files.fstab = <<>>
           /\ e.exit = 0 /\ ~blank /\ e.opened # "ok" =>
                 err.kind = "FstabWriteFailed" /\ e.opened = "failed" /\ files.fstab = <<>>
           /\ e.exit = 0 /\ ~blank /\ e.opened = "ok" =>
                 /\ err.kind \notin {"FstabGenerationFailed", "FstabEmpty", "FstabWriteFailed"}
                 /\ files.fstab = table \o <<"">>

\* genfstab exited with 0 but printed blank lines only
C21_Witness ==
    /\ pc = "done"
    /\ err.kind = "FstabEmpty"
    /\ \E i \in Invoked("genfstab") : trace[i].exit = 0 /\ trace[i].output # <<>>


\* every reordering of the list q
Reorderings(q) ==
    LET n == Len(q)
        bij == {f \in [1..n -> 1..n] : \A a, b \in 1..n : f[a] = f[b] => a = b}
    IN {[j \in 1..n |-> q[f[j]]] : f \in bij}

\* C22: the packages handed to pacstrap are the same set whatever the order
\* of the CPU, GPU, user, system and desktop package lists: reordering
\* any of them gives an argument list with the same elements.
C22_OrderIndependent ==
    \A i \in Invoked("pacstrap") :
        \A c \in Reorderings(m_state.cpuPackages), g \in Reorderings(m_state.gpuPackages),
           u \in Reorderings(m_state.userPackages), y \in Reorderings(m_state.systemPackages),
           d \in Reorderings(MapList(m_state.de, "packages")) :
            Elems(AddExtras(BASE \o c \o g, u \o y, d)) = Elems(Tail(trace[i].args))

\* pacstrap ran with two different extra packages of the user, one of
\* which the desktop brings along, and extra packages of the system
C22_Witness ==
    /\ Invoked("pacstrap") # {}
    /\ m_state.userPackages = <<"gdm", "htop">>
    /\ m_state.systemPackages = <<"htop", "git">>
    /\ ~isEmpty(m_state.de)


RECURSIVE GrubRewriteTimes(_, _)
\* the rewrite applied n times in a row
GrubRewriteTimes(lines, n) ==
    IF n = 0 THEN lines ELSE GrubRewriteTimes(GrubRewrite(lines), n - 1)

\* the lines that set the directive: those that start with its name and "="
SettingsOf(lines, pre) == {i \in 1..Len(lines) : StartsWith(lines[i], pre)}

\* C23: whatever /mnt/etc/default/grub held, once doGrub has rewritten it,
\* and however many times the rewrite is applied again, each of
\* GRUB_THEME, GRUB_GFXMODE, GRUB_GFXPAYLOAD_LINUX and
\* GRUB_DISABLE_OS_PROBER is set by exactly one line, the fixed one.
C23_DirectivesOnce ==
    (Chrooted("grub-mkconfig") # {} /\ files.grub_access = "rw") =>
        \A n \in 0..(MaxApply - 1), k \in 1..Len(GrubFixed) :
            LET lines == GrubRewriteTimes(files.grub, n)
                at == SettingsOf(lines, <<GrubFixed[k][1]>>)
            IN Cardinality(at) = 1 /\ \A i \in at : lines[i] = GrubFixed[k]

\* the file was rewritten, and keeps a commented and an indented line
\* that name two of the directives
C23_Witness ==
    /\ Chrooted("grub-mkconfig") # {}
    /\ files.grub_access = "rw"
    /\ Len(files.grub) = 2 + 1 + Len(GrubFixed)
    /\ files.grub[1] = <<"#", "GRUB_GFXPAYLOAD_LINUX=", "text">>
    /\ files.grub[2] = <<" ", "GRUB_DISABLE_OS_PROBER=", "true">>


C25_ConfigReadOnly ==
    /\ [][m_state' = m_state]_vars
    /\ [](m_state = wiz)

\* a run on a wiped disk that got through all its stages
C25_Witness ==
    /\ pc = "done"
    /\ SucceededIdx # {}
    /\ m_state.installMode = "wipe"
    /\ m_state = wiz


\* s is the decimal numeral of n: digits only, no leading zero
IsNumeral(s, n) ==
    /\ s # <<>>
    /\ \A j \in 1..Len(s) : \E d \in 1..10 : Digits[d] = s[j]
    /\ Len(s) > 1 => s[1] # "0"
    /\ ParseNum(s) = n

\* s names partition n of the disk d: d, then "p" if "nvme" or "mmcblk"
\* occurs in d, then n
NamesPartition(s, d, n) ==
    LET rest == SubSeq(s, Len(d) + 1, Len(s))
        withP == \/ \E i \in 1..(Len(d) - 3) : SubSeq(d, i, i + 3) = <<"n","v","m","e">>
                 \/ \E i \in 1..(Len(d) - 5) : SubSeq(d, i, i + 5) = <<"m","m","c","b","l","k">>
    IN /\ Len(s) > Len(d)
       /\ SubSeq(s, 1, Len(d)) = d
       /\ IF withP
          THEN rest # <<>> /\ rest[1] = "p" /\ IsNumeral(Tail(rest), n)
          ELSE IsNumeral(rest, n)

\* C26: partName(d, n) is d, then "p" if d contains "nvme" or "mmcblk",
\* then n: for the disk of the run and every partition number, for the
\* two devices partitionWipe returns, and in the two examples
\* (/dev/nvme0n1, 1 gives /dev/nvme0n1p1; /dev/sda, 2 gives /dev/sda2).
C26_PartName ==
    /\ \A n \in 1..MaxPartNum : NamesPartition(partName(disk, n), disk, n)
    /\ (m_state.installMode = "wipe" /\ pc = "run_format") =>
           /\ NamesPartition(efi, disk, 1)
           /\ NamesPartition(root, disk, 2)
           /\ disk = DEV \o NVME0N1 =>
                  efi = <<"/","d","e","v","/","n","v","m","e","0","n","1","p","1">>
           /\ disk = DEV \o SDA => root = <<"/","d","e","v","/","s","d","a","2">>

\* an SD card was wiped and its two partitions were named
C26_Witness ==
    /\ m_state.installMode = "wipe"
    /\ pc = "run_format"
    /\ efi = <<"/","d","e","v","/","m","m","c","b","l","k","0","p","1">>
    /\ root = <<"/","d","e","v","/","m","m","c","b","l","k","0","p","2">>


\* C27: in freespace and dualboot mode the device that mkfs.ext4 -F is
\* given is the partition this run created (the third of the disk, after
\* the two that existed), in whatever order lsblk lists the partitions.
C27_RootIsNewPartition ==
    m_state.installMode \in {"freespace", "dualboot"} =>
        \A i \in Invoked("mkfs.ext4") : trace[i].args = <<"-F", partName(disk, 3)>>


\* C28: in freespace mode the partition-creating command is given a start
\* that is not below the start of the selected free region and an end that
\* is not above its end, fractional offsets included.
C28_WithinRegion ==
    (m_state.installMode = "freespace" /\ best # NoRegion) =>
        \A i \in Parted("mkpart") :
            /\ ParseMB(trace[i].args[6]) * Frac >= best.startMb
            /\ ParseMB(trace[i].args[7]) * Frac <= best.endMb


\* the sufficient regions of the largest size, by their places in the listing
TiedAt ==
    LET need == reqGb * 1024 * Frac
        fit == {j \in 1..Len(disk_free) : disk_free[j].sizeMb >= need}
    IN {j \in fit : \A q \in fit : disk_free[q].sizeMb <= disk_free[j].sizeMb}

\* the regions listed at those places
Tied == {disk_free[j] : j \in TiedAt}

\* C29: in freespace mode, when several sufficient regions share the
\* largest size, the partition is created in the one that the query
\* listed first among them (the listing, not the offset, decides).
C29_FirstListedWins ==
    (m_state.installMode = "freespace" /\ Cardinality(Tied) >= 2) =>
        \A i \in Parted("mkpart") :
            \E j \in TiedAt :
                /\ \A q \in TiedAt : j <= q
                /\ ParseMB(trace[i].args[6]) = disk_free[j].startMb \div Frac

\* C29 as stated: in freespace mode, when several sufficient regions
\* share the largest size, the partition is created in the one with the
\* larger start offset.
C29_LargerOffsetWins ==
    (m_state.installMode = "freespace" /\ Cardinality(Tied) >= 2) =>
        \A i \in Parted("mkpart") :
            \E r \in Tied :
                /\ \A q \in Tied : q.startMb <= r.startMb
                /\ ParseMB(trace[i].args[6]) = r.startMb \div Frac

\* two regions of 100000 MB, the one at the smaller offset listed first,
\* and a partition was created
C29_Witness ==
    /\ m_state.installMode = "freespace"
    /\ Parted("mkpart") # {}
    /\ Len(disk_free) = 2
    /\ disk_free[1].sizeMb = disk_free[2].sizeMb
    /\ disk_free[1].startMb < disk_free[2].startMb


\* C30: in dualboot mode a run that failed with
\* PartitionNumberUnresolvable has invoked no command that modifies the
\* disk: neither ntfsresize nor parted.
C30_UnresolvableBeforeChanges ==
    err.kind = "PartitionNumberUnresolvable" =>
        Invoked("ntfsresize") = {} /\ Invoked("parted") = {}


\* the commands that change the disk or make the kernel read it again
ChangesDisk(e) == e.k = "cmd" /\ e.prog \in {"ntfsresize", "parted", "partprobe"}

\* what such a command does: parted's sub-command, else the program
DiskStep(e) == IF e.prog = "parted" THEN e.args[3] ELSE e.prog

\* C31: in dualboot mode the commands that change the disk are issued in
\* the order ntfsresize, parted resizepart, partprobe, parted mkpart,
\* partprobe, each only after all the ones before it have succeeded.
C31_DualBootOrder ==
    m_state.installMode = "dualboot" =>
        LET cmds == SelectSeq(trace, ChangesDisk)
            order == <<"ntfsresize", "resizepart", "partprobe", "mkpart", "partprobe">>
        IN /\ Len(cmds) <= Len(order)
           /\ \A n \in 1..Len(cmds) : DiskStep(cmds[n]) = order[n]
           /\ \A n \in 1..(Len(cmds) - 1) :
                  cmds[n].res.status = "NormalExit" /\ cmds[n].res.code = 0

\* all five commands were issued and the listing is next
C31_Witness ==
    /\ m_state.installMode = "dualboot"
    /\ pc = "db_lsblk"
    /\ Len(SelectSeq(trace, ChangesDisk)) = 5


\* the external commands of the bootloader stage
GrubStageIdx ==
    Chrooted("grub-install") \cup Chrooted("os-prober") \cup Chrooted("grub-mkconfig")

\* C32: os-prober is invoked only in dualboot mode; once grub-install has
\* succeeded and the stage has gone on past its last command, os-prober
\* was invoked exactly if the mode is dualboot, and grub-mkconfig was
\* invoked after grub-install and after os-prober, as the last command of
\* the stage, whether or not the theme was copied or the default
\* configuration rewritten.
C32_MkconfigLast ==
    /\ Chrooted("os-prober") # {} => m_state.installMode = "dualboot"
    /\ \A i \in Chrooted("grub-install") :
          (i \notin BadRunIdx /\ pc \notin {"grub_theme", "grub_osprober", "grub_mkconfig"}) =>
              /\ (Chrooted("os-prober") # {}) <=> (m_state.installMode = "dualboot")
              /\ \E j \in Chrooted("grub-mkconfig") : \A h \in GrubStageIdx \ {j} : h < j

\* dualboot, no theme to copy and no default configuration to rewrite:
\* os-prober failed and grub-mkconfig ran all the same
C32_Witness ==
    /\ m_state.installMode = "dualboot"
    /\ ~files.theme
    /\ files.grub_access = "none"
    /\ \E i \in Chrooted("os-prober") : i \in BadRunIdx
    /\ Chrooted("grub-mkconfig") # {}


\* C33: the rewrite of /mnt/etc/default/grub is idempotent on the whole
\* file: once doGrub has rewritten the file, rewriting it again leaves
\* every line of it, blank ones included, as it is.
C33_RewriteIdempotent ==
    (Chrooted("grub-mkconfig") # {} /\ files.grub_access = "rw") =>
        GrubRewrite(files.grub) = files.grub


\* the configuration has the line first directly followed by the line second
HasPair(conf, first, second) ==
    conf # Unreadable /\ \E i \in 1..(Len(conf) - 1) : conf[i] = first /\ conf[i + 1] = second

\* C34: enableMultilib refreshes the package database only if
\* /etc/pacman.conf held the commented pair of the multilib section and
\* its Include line (the pair is then enabled, or still commented when the
\* file could not be written); with the section enabled already, or not
\* there as such a pair, pacman -Sy is not invoked.
C34_MultilibIdempotent ==
    Invoked("pacman") # {} =>
        \/ HasPair(files.pacman_conf, "#[multilib]", "#Include = /etc/pacman.d/mirrorlist")
        \/ /\ HasPair(files.pacman_conf, "[multilib]", "Include = /etc/pacman.d/mirrorlist")
           /\ ~HasCommentedMultilib(files.pacman_conf)


\* the invocations of pacman, pacstrap, genfstab and arch-chroot
AfterMountIdx ==
    {i \in CmdIdx : trace[i].prog \in {"pacman", "pacstrap", "genfstab", "arch-chroot"}}

\* the command at position i exited normally with code 0
Succeeded(i) == trace[i].res.status = "NormalExit" /\ trace[i].res.code = 0

\* C35: the mount stage mounts the root device at /mnt and then the EFI
\* device at /mnt/boot/efi, the second only if the first succeeded; and
\* pacman, pacstrap, genfstab or arch-chroot are invoked only in runs in
\* which both mounts were made and succeeded.
C35_MountOrder ==
    LET mounts == Invoked("mount")
        later == AfterMountIdx
    IN /\ Cardinality(mounts) <= 2
       /\ \A i \in mounts :
             IF \A j \in mounts : i <= j
             THEN trace[i].args = <<root, "/mnt">>
             ELSE /\ trace[i].args = <<efi, "/mnt/boot/efi">>
                  /\ \A j \in mounts \ {i} : Succeeded(j)
       /\ later # {} =>
             /\ Cardinality(mounts) = 2
             /\ \A j \in mounts : Succeeded(j) /\ \A i \in later : j < i

\* the root was mounted, the mount of the EFI partition failed, and the
\* run has ended
C35_Witness ==
    /\ pc = "done"
    /\ Cardinality(Invoked("mount")) = 2
    /\ \E i \in Invoked("mount") : trace[i].args[2] = "/mnt/boot/efi" /\ ~Succeeded(i)
    /\ AfterMountIdx = {}


PacstrapArgs == UNION {Elems(Tail(trace[i].args)) : i \in Invoked("pacstrap")}
DesktopArgs ==
    UNION {Elems(SubSeq(trace[i].args, 5, Len(trace[i].args))) : i \in Chrooted("pacman")}

\* C37: in a run that succeeded pacstrap was invoked once, and every
\* package of the user's and of the system's extra lists was handed to
\* pacstrap or to the desktop stage's package install.
C37_NoPackageDropped ==
    SucceededIdx # {} =>
        /\ Cardinality(Invoked("pacstrap")) = 1
        /\ \A p \in Elems(m_state.userPackages) \cup Elems(m_state.systemPackages) :
              p \in PacstrapArgs \cup DesktopArgs

\* a run that succeeded with gdm among the system's packages and left out
\* of pacstrap because the desktop brings it along
C37_Witness ==
    /\ SucceededIdx # {}
    /\ "gdm" \in Elems(m_state.systemPackages)
    /\ "gdm" \notin PacstrapArgs
    /\ "gdm" \in DesktopArgs


\* C38: whatever the user did on the wizard's screens, once the pipeline
\* has been started the Disk, User, Desktop, Hardware, Packages and System
\* screens have each been confirmed, the configuration names a disk, and
\* its hostname (letters, digits, hyphens), username (lowercase letters,
\* digits, underscore, hyphen) and password (six characters at least) are
\* as the User screen's validation wants them.
C38_StartAfterAllConfirmed ==
    pc # "idle" =>
        /\ {"SCR_DISK", "SCR_USER", "SCR_DE", "SCR_HARDWARE", "SCR_PACKAGES", "SCR_SYSTEM"}
              \subseteq confirmed
        /\ ~isEmpty(m_state.disk)
        /\ m_state.hostname # <<>>
        /\ \A i \in 1..Len(m_state.hostname) :
              m_state.hostname[i] \in LowerChars \cup UpperChars \cup DigitChars \cup {"-"}
        /\ m_state.username # <<>>
        /\ \A i \in 1..Len(m_state.username) :
              m_state.username[i] \in LowerChars \cup DigitChars \cup {"_", "-"}
        /\ Len(m_state.password) >= 6

\* the pipeline was started with the hostname that was typed with blanks
\* around it, stored without them
C38_Witness ==
    /\ pc = "run"
    /\ screen = "SCR_INSTALL"
    /\ m_user.hostname = <<" ","p","c","-","1"," ">>
    /\ m_state.hostname = <<"p","c","-","1">>
    /\ m_state.username = <<"b","o","b">>


\* C39: when the free-region query, the re-listing of the block devices or
\* the fstab generator has not finished when its wait expires, the stage
\* fails: once the worker has made the call to a tool that outlasts its
\* wait, an error is raised, so that nothing is done with what the tool
\* had printed by then.
C39_UnfinishedToolFails ==
    /\ "parted" \in slow /\ Parted("unit") # {} => Raised
    /\ "lsblk" \in slow /\ Invoked("lsblk") # {} => Raised
    /\ "genfstab" \in slow /\ Invoked("genfstab") # {} => Raised

====
